---- MODULE Spec2Model ----
(***************************************************************************)
(* Retrieval pipeline of azure-avatar-rag: DocumentChunker (chunker.py),   *)
(* EmbeddingsClient (embedder.py), CosmosDBClient (cosmos_db.py),          *)
(* DocumentProcessor.process_file (processor.py) and                       *)
(* ChatClient._get_relevant_context (chat.py).                             *)
(*                                                                         *)
(* A text is a sequence of one-character strings.  The specifications of  *)
(* the module share its variables: SpecChunk (chunk_document as a function *)
(* of text and configuration), SpecMerge, SpecCount and SpecFallback       *)
(* (_merge_small_chunks, _count_tokens and _embed_fallback applied to      *)
(* bounded arguments), SpecEmbed (one EmbeddingsClient, calls one after    *)
(* the other), SpecEmbedFair (the same, every remote attempt returning or  *)
(* raising), SpecOutage (the same with a remote service that goes down),   *)
(* SpecConc (two request threads on one EmbeddingsClient), SpecStore       *)
(* (process_file / search_similar / delete_document / list_documents on    *)
(* one CosmosDBClient), SpecContext (process_file and                      *)
(* _get_relevant_context on one store and one embedder), SpecShort (the    *)
(* same with a remote service that may answer fewer inputs than it was     *)
(* sent) and SpecAsWritten (process_file and chunk_document with the       *)
(* logging helpers as defined).                                            *)
(*                                                                         *)
(* Conventions.  Except in SpecAsWritten, the helpers of logger.py         *)
(* (log_info, log_warning, log_debug, log_error) are taken to return       *)
(* normally whatever arguments they are given: a logging call is no step   *)
(* of those specifications.  Tokens are                                    *)
(* counted by the approximation of chunker.py line 37 (len(text) // 4),    *)
(* the mode the chunker is in when the tiktoken package is absent.  The    *)
(* embeddings service, the document store and the text extractors are      *)
(* outside the repository: what they return is chosen nondeterministically.*)
(***************************************************************************)
EXTENDS Integers, Sequences, FiniteSets, TLC

VARIABLES
    \* ---- DocumentChunker ------------------------------------------------
    text,            \* chunk_document(text, doc_id): the document text
    config,          \* target_tokens, max_tokens, overlap_tokens, min_chunk_tokens
    chunks,          \* the list chunk_document returned
    c_pc,            \* "input" before the call, "done" after it
    passes,          \* what successive _merge_small_chunks calls returned
    token_count,     \* <<n>> once _count_tokens(text) returned n, <<>> before
    \* ---- EmbeddingsClient (calls one after the other) ---------------------
    client,          \* self._client is not None
    cache,           \* self._cache, a dict: its entries in insertion order
    e_pc,            \* "idle", or "remote": inside _embed_with_openai_retry
    e_texts,         \* texts of the current (or the last) embed_texts call
    e_miss,          \* texts_to_embed / indices_to_embed / cached_* of that call
    attempt,         \* the loop variable of _embed_with_openai_retry
    e_attempts,      \* the remote calls of that call: batch sent and outcome
    e_sleeps,        \* the time.sleep(wait_time) waits of that call, in order
    e_result,        \* what the last call returned
    e_outcome,       \* how the last call ended
    cache_at_call,   \* self._cache when that call started
    \* ---- EmbeddingsClient shared by request threads -----------------------
    th,              \* per thread: where it is in embed_texts, and its locals
    \* ---- CosmosDBClient and DocumentProcessor ----------------------------
    connected,       \* self.connected (the container handle is set with it)
    container,       \* the items of the container, one per id
    document_count,  \* self.document_count, the cached count
    uuids,           \* how many document ids uuid.uuid4() has produced
    processed,       \* per document id: the result process_file returned
    s_last,          \* the last call on the store or the chat client: arguments and result
    \* ---- EmbeddingsClient while the remote service is down ----------------
    outage,          \* every call of the remote service fails from now on
    o_calls,         \* how many embed_texts calls were made since it went down
    seen             \* <<text, input position, vector>> those calls returned

chunkVars == <<text, config, chunks, c_pc, passes, token_count>>

embedVars == <<client, cache, e_pc, e_texts, e_miss, attempt, e_attempts, e_sleeps,
               e_result, e_outcome, cache_at_call>>

storeVars == <<connected, container, document_count, uuids, processed, s_last>>

outageVars == <<outage, o_calls, seen>>

vars == <<chunkVars, embedVars, th, storeVars, outageVars>>

\* what the actions of each specification leave alone
chunkFrame == <<embedVars, th, storeVars, outageVars>>

embedFrame == <<chunkVars, th, storeVars, outageVars>>

concFrame == <<chunkVars, client, e_pc, e_texts, e_miss, attempt, e_attempts, e_sleeps,
               e_result, e_outcome, cache_at_call, storeVars, outageVars>>

storeFrame == <<chunkVars, client, e_pc, e_texts, e_miss, attempt, e_attempts, e_sleeps,
                e_result, e_outcome, cache_at_call, th, outageVars>>

(***************************************************************************)
(* Bounds of the model.                                                    *)
(***************************************************************************)
\* A document text is a concatenation of at most MaxPieces pieces of Pieces.
MaxPieces == 6

\* embed_texts is called with at most MaxBatch texts, drawn from the first
\* NumTexts texts of TextPool.
MaxBatch == 2

NumTexts == 3

\* config.embedding_dim (3072 by default, config.py:42), scaled down.
Dim == 2

\* self._max_cache_size (100, embedder.py:21), scaled down.
max_cache_size == 2

(***************************************************************************)
(* Program constants.                                                      *)
(***************************************************************************)
\* chunker.py:37, 135, 204: the fallback counter takes 1 token = 4 characters.
CharsPerToken == 4

\* embedder.py:120: _embed_with_openai_retry(self, texts, max_retries=3)
max_retries == 3

\* embedder.py:152: the modulus (and denominator) of the fallback components
FallbackModulus == 17

(***************************************************************************)
(* Sequence helpers (Python built-ins the code uses).                      *)
(***************************************************************************)
Min(a, b) == IF a <= b THEN a ELSE b

RECURSIVE Flatten(_)
\* "".join(parts)
Flatten(parts) ==
    IF parts = <<>> THEN <<>> ELSE Head(parts) \o Flatten(Tail(parts))

RECURSIVE Join(_, _)
\* sep.join(parts)
Join(parts, sep) ==
    IF parts = <<>> THEN <<>>
    ELSE IF Len(parts) = 1 THEN parts[1]
    ELSE parts[1] \o sep \o Join(Tail(parts), sep)

IsSpace(c) == c = " "

IsTerminal(c) == c \in {".", "!", "?"}

RECURSIVE lstrip(_)
lstrip(s) ==
    IF s # <<>> /\ IsSpace(Head(s)) THEN lstrip(Tail(s)) ELSE s

RECURSIVE rstrip(_)
rstrip(s) ==
    IF s # <<>> /\ IsSpace(s[Len(s)]) THEN rstrip(SubSeq(s, 1, Len(s) - 1)) ELSE s

\* str.strip()
strip(s) == rstrip(lstrip(s))

RECURSIVE SkipSpaces(_, _)
\* the index after the whitespace run that starts at i (the greedy \s+)
SkipSpaces(s, i) ==
    IF i <= Len(s) /\ IsSpace(s[i]) THEN SkipSpaces(s, i + 1) ELSE i

RECURSIVE re_split(_, _, _)
\* re.split(r'(?<=[.!?])\s+', s): cut at every whitespace run that directly
\* follows '.', '!' or '?'; cur is the part being read, i the position.
re_split(s, i, cur) ==
    IF i > Len(s) THEN <<cur>>
    ELSE IF IsSpace(s[i]) /\ i > 1 /\ IsTerminal(s[i - 1])
         THEN <<cur>> \o re_split(s, SkipSpaces(s, i), <<>>)
         ELSE re_split(s, i + 1, Append(cur, s[i]))

(***************************************************************************)
(* DocumentChunker, approximate counting mode (self._enc is None).         *)
(***************************************************************************)
_count_tokens(t) == Len(t) \div CharsPerToken

_split_sentences(t) ==
    LET parts == re_split(strip(t), 1, <<>>)
        stripped == [i \in 1..Len(parts) |-> strip(parts[i])]
    IN  SelectSeq(stripped, LAMBDA p : p # <<>>)

Chunk(t, index, doc_id) == [text |-> t, chunk_index |-> index, doc_id |-> doc_id]

RECURSIVE TextWindows(_, _, _)
\* [text[i:i+size] for i in range(start, len(text), size)], start 0-based
TextWindows(t, start, size) ==
    IF start >= Len(t) THEN <<>>
    ELSE <<SubSeq(t, start + 1, Min(start + size, Len(t)))>>
         \o TextWindows(t, start + size, size)

\* the windows come out last first
_hard_split_Reversed(t, cfg) ==
    LET w == TextWindows(t, 0, cfg.max_tokens * CharsPerToken)
    IN  [k \in 1..Len(w) |-> w[Len(w) + 1 - k]]

\* the last window is dropped when it is shorter than the others
_hard_split_FullWindowsOnly(t, cfg) ==
    SelectSeq(TextWindows(t, 0, cfg.max_tokens * CharsPerToken),
              LAMBDA w : Len(w) = cfg.max_tokens * CharsPerToken)

_hard_split(t, cfg) == TextWindows(t, 0, cfg.max_tokens * CharsPerToken)

RECURSIVE AppendHardChunks(_, _, _)
\* for hc in hard_chunks: chunks.append({... "chunk_index": len(chunks) ...})
AppendHardChunks(cs, hard_chunks, doc_id) ==
    IF hard_chunks = <<>> THEN cs
    ELSE AppendHardChunks(Append(cs, Chunk(Head(hard_chunks), Len(cs), doc_id)),
                          Tail(hard_chunks), doc_id)

\* the sentences of the buffer joined without a separator
FlushBuffer_NoSeparator(cs, current_sentences, doc_id) ==
    IF current_sentences # <<>>
    THEN Append(cs, Chunk(Flatten(current_sentences), Len(cs), doc_id))
    ELSE cs

\* chunks.append({"text": " ".join(current_sentences), ...}) when the buffer
\* is not empty
FlushBuffer(cs, current_sentences, doc_id) ==
    IF current_sentences # <<>>
    THEN Append(cs, Chunk(Join(current_sentences, <<" ">>), Len(cs), doc_id))
    ELSE cs

RECURSIVE AccumulateSentences(_, _, _, _, _, _)
\* the sentence loop of chunk_document and the flush that follows it
AccumulateSentences(sentences, cs, current_sentences, current_tokens, doc_id, cfg) ==
    IF sentences = <<>> THEN FlushBuffer(cs, current_sentences, doc_id)
    ELSE
      LET sentence == Head(sentences)
          sentence_tokens == _count_tokens(sentence)
      IN  IF sentence_tokens > cfg.max_tokens
          THEN AccumulateSentences(Tail(sentences),
                   AppendHardChunks(FlushBuffer(cs, current_sentences, doc_id),
                                    _hard_split(sentence, cfg), doc_id),
                   IF current_sentences # <<>> THEN <<>> ELSE current_sentences,
                   IF current_sentences # <<>> THEN 0 ELSE current_tokens,
                   doc_id, cfg)
          ELSE IF current_tokens + sentence_tokens <= cfg.target_tokens
          THEN AccumulateSentences(Tail(sentences), cs,
                   Append(current_sentences, sentence),
                   current_tokens + sentence_tokens, doc_id, cfg)
          ELSE AccumulateSentences(Tail(sentences),
                   FlushBuffer(cs, current_sentences, doc_id),
                   <<sentence>>, sentence_tokens, doc_id, cfg)

\* the test of line 88 with < in the place of <=
FitsTarget_Strict(current_tokens, sentence_tokens, cfg) ==
    current_tokens + sentence_tokens < cfg.target_tokens

\* if current_tokens + sentence_tokens <= self.target_tokens
FitsTarget(current_tokens, sentence_tokens, cfg) ==
    current_tokens + sentence_tokens <= cfg.target_tokens

\* the sentences a closed buffer held; nothing when the buffer is empty
FlushGroup(groups, current_sentences) ==
    IF current_sentences # <<>>
    THEN Append(groups, [hard |-> FALSE, sentences |-> current_sentences])
    ELSE groups

RECURSIVE AccumulateGroups(_, _, _, _, _)
\* the sentence loop of chunk_document, keeping for every passage it appends
\* the sentences of the buffer it was built from; the passages of a
\* hard-split sentence are one group
AccumulateGroups(sentences, groups, current_sentences, current_tokens, cfg) ==
    IF sentences = <<>> THEN FlushGroup(groups, current_sentences)
    ELSE
      LET sentence == Head(sentences)
          sentence_tokens == _count_tokens(sentence)
      IN  IF sentence_tokens > cfg.max_tokens
          THEN AccumulateGroups(Tail(sentences),
                   Append(FlushGroup(groups, current_sentences),
                          [hard |-> TRUE, sentences |-> <<sentence>>]),
                   IF current_sentences # <<>> THEN <<>> ELSE current_sentences,
                   IF current_sentences # <<>> THEN 0 ELSE current_tokens,
                   cfg)
          ELSE IF FitsTarget(current_tokens, sentence_tokens, cfg)
          THEN AccumulateGroups(Tail(sentences), groups,
                   Append(current_sentences, sentence),
                   current_tokens + sentence_tokens, cfg)
          ELSE AccumulateGroups(Tail(sentences),
                   FlushGroup(groups, current_sentences),
                   <<sentence>>, sentence_tokens, cfg)

NoBuffer == [none |-> TRUE]

\* a loop that appends every passage as it comes
MergeLoop_NoJoin(cs, merged, buffer, cfg) == merged \o cs

RECURSIVE MergeLoop(_, _, _, _)
\* the loop of _merge_small_chunks and the flush that follows it; buffer is
\* NoBuffer for None
MergeLoop(cs, merged, buffer, cfg) ==
    IF cs = <<>>
    THEN IF buffer # NoBuffer THEN Append(merged, buffer) ELSE merged
    ELSE
      LET chunk == Head(cs)
          tokens == _count_tokens(chunk.text)
      IN  IF tokens < cfg.min_chunk_tokens
          THEN IF buffer = NoBuffer
               THEN MergeLoop(Tail(cs), merged, chunk, cfg)
               ELSE LET joined == [buffer EXCEPT !.text = @ \o <<" ">> \o chunk.text]
                    IN  IF _count_tokens(joined.text) >= cfg.min_chunk_tokens
                        THEN MergeLoop(Tail(cs), Append(merged, joined), NoBuffer, cfg)
                        ELSE MergeLoop(Tail(cs), merged, joined, cfg)
          ELSE MergeLoop(Tail(cs),
                         Append(IF buffer # NoBuffer THEN Append(merged, buffer)
                                ELSE merged, chunk),
                         NoBuffer, cfg)

\* the passages keep the index they were created with
Reindex_Keep(cs) == cs

\* for i, chunk in enumerate(merged): chunk["chunk_index"] = i
Reindex(cs) ==
    [i \in 1..Len(cs) |-> [cs[i] EXCEPT !.chunk_index = i - 1]]

RECURSIVE MergeLoop_JoinPairs(_, _, _, _)
\* a buffered passage is emitted as soon as one more passage was joined to it,
\* whether or not it has reached min_chunk_tokens
MergeLoop_JoinPairs(cs, merged, buffer, cfg) ==
    IF cs = <<>>
    THEN IF buffer # NoBuffer THEN Append(merged, buffer) ELSE merged
    ELSE
      LET chunk == Head(cs)
          tokens_ == _count_tokens(chunk.text)
      IN  IF tokens_ < cfg.min_chunk_tokens
          THEN IF buffer = NoBuffer
               THEN MergeLoop_JoinPairs(Tail(cs), merged, chunk, cfg)
               ELSE LET joined == [buffer EXCEPT !.text = @ \o <<" ">> \o chunk.text]
                    IN  MergeLoop_JoinPairs(Tail(cs), Append(merged, joined), NoBuffer, cfg)
          ELSE MergeLoop_JoinPairs(Tail(cs),
                         Append(IF buffer # NoBuffer THEN Append(merged, buffer)
                                ELSE merged, chunk),
                         NoBuffer, cfg)

_merge_small_chunks_JoinPairs(cs, cfg) ==
    IF cs = <<>> THEN <<>> ELSE Reindex(MergeLoop_JoinPairs(cs, <<>>, NoBuffer, cfg))

\* an undersized passage left in the buffer after the loop is dropped
_merge_small_chunks_DropTrailing(cs, cfg) ==
    IF cs = <<>> THEN <<>>
    ELSE LET m == MergeLoop(cs, <<>>, NoBuffer, cfg)
         IN  IF m # <<>> /\ _count_tokens(m[Len(m)].text) < cfg.min_chunk_tokens
             THEN Reindex(SubSeq(m, 1, Len(m) - 1))
             ELSE Reindex(m)

_merge_small_chunks(cs, cfg) ==
    IF cs = <<>> THEN <<>> ELSE Reindex(MergeLoop(cs, <<>>, NoBuffer, cfg))

_get_tail(t, overlap_tokens) ==
    LET approx_chars == overlap_tokens * CharsPerToken
    IN  IF Len(t) > approx_chars
        THEN SubSeq(t, Len(t) - approx_chars + 1, Len(t))
        ELSE t

\* every passage gets the tail of the first passage
_apply_overlap_TailOfFirst(cs, cfg) ==
    IF cfg.overlap_tokens <= 0 \/ Len(cs) < 2 THEN cs
    ELSE [i \in 1..Len(cs) |->
            IF i = 1 THEN cs[i]
            ELSE [cs[i] EXCEPT !.text =
                    _get_tail(cs[1].text, cfg.overlap_tokens)
                    \o <<" ">> \o cs[i].text]]

_apply_overlap(cs, cfg) ==
    IF cfg.overlap_tokens <= 0 \/ Len(cs) < 2 THEN cs
    ELSE [i \in 1..Len(cs) |->
            IF i = 1 THEN cs[i]
            ELSE [cs[i] EXCEPT !.text =
                    _get_tail(cs[i - 1].text, cfg.overlap_tokens)
                    \o <<" ">> \o cs[i].text]]

\* the passages before the merge and overlap passes (chunker.py lines 54-109)
AccumulatedChunks(t, doc_id, cfg) ==
    AccumulateSentences(_split_sentences(t), <<>>, <<>>, 0, doc_id, cfg)

chunk_document(t, doc_id, cfg) ==
    _apply_overlap(_merge_small_chunks(AccumulatedChunks(t, doc_id, cfg), cfg), cfg)

(***************************************************************************)
(* EmbeddingsClient.  A vector is a record: src tells who produced it, of  *)
(* the text it is the embedding of, comps its components (for a fallback   *)
(* vector the numerators over FallbackModulus; the remote service's        *)
(* components are opaque).                                                 *)
(***************************************************************************)
\* ord(c) for the characters of the model's texts
Ord(c) ==
    CASE c = "a" -> 97
      [] c = "." -> 46
      [] c = " " -> 32
      [] c = "!" -> 33
      [] c = "?" -> 63

RECURSIVE SumOrd(_)
\* sum(ord(c) for c in text)
SumOrd(t) == IF t = <<>> THEN 0 ELSE Ord(Head(t)) + SumOrd(Tail(t))

\* vectors = [None] * len(texts): an entry never assigned
None == [src |-> "none", of |-> <<>>, comps |-> <<>>]

\* item.embedding of the response for input text t (embedder.py:124-132): the
\* remote service embeds each input, in input order
RemoteVector(t) == [src |-> "remote", of |-> t, comps |-> <<>>]

RemoteEmbeddings(batch) == [k \in 1..Len(batch) |-> RemoteVector(batch[k])]

\* the position of the text in the batch is left out of the components
FallbackVector_IgnoresPosition(t, i) ==
    LET base == IF SumOrd(t) = 0 THEN 1 ELSE SumOrd(t)
    IN  [src |-> "fallback", of |-> t,
         comps |-> [j1 \in 1..Dim |-> (base * ((j1 - 1) + 1)) % FallbackModulus]]

\* the vector _embed_fallback builds for the text at (0-based) position i
FallbackVector(t, i) ==
    LET base == IF SumOrd(t) = 0 THEN 1 ELSE SumOrd(t)
    IN  [src |-> "fallback", of |-> t,
         comps |-> [j1 \in 1..Dim |-> (base * ((j1 - 1) + i + 1)) % FallbackModulus]]

_embed_fallback(texts) == [k \in 1..Len(texts) |-> FallbackVector(texts[k], k - 1)]

\* hashlib.md5(text.encode('utf-8')).hexdigest(): distinct texts of the model
\* have distinct digests
_get_cache_key(t) == <<"md5", t>>

CacheKeys(c) == {c[i].key : i \in 1..Len(c)}

\* the lookup returns the oldest entry's vector
CacheGet_Oldest(c, key) == c[1].vector

\* self._cache[key]
CacheGet(c, key) == c[CHOOSE i \in 1..Len(c) : c[i].key = key].vector

\* self._cache[key] = vector: a present key keeps its place, a new one goes last
DictSet(c, key, vector) ==
    IF key \in CacheKeys(c)
    THEN [i \in 1..Len(c) |-> IF c[i].key = key THEN [key |-> key, vector |-> vector]
                                                 ELSE c[i]]
    ELSE Append(c, [key |-> key, vector |-> vector])

\* _update_cache without its lines 114-117: nothing is ever evicted
_update_cache_noevict(c, key, vector) == DictSet(c, key, vector)

_update_cache(c, key, vector) ==
    DictSet(IF Len(c) >= max_cache_size THEN Tail(c) ELSE c, key, vector)

RECURSIVE UpdateCacheAll(_, _, _)
\* for text, vector in zip(texts_to_embed, new_vectors): self._update_cache(...)
UpdateCacheAll(c, texts, vectors) ==
    IF texts = <<>> \/ vectors = <<>> THEN c
    ELSE UpdateCacheAll(_update_cache(c, _get_cache_key(Head(texts)), Head(vectors)),
                        Tail(texts), Tail(vectors))

NoMiss ==
    [texts_to_embed |-> <<>>, indices_to_embed |-> <<>>,
     cached_vectors |-> <<>>, cached_indices |-> <<>>]

RECURSIVE CheckCache(_, _, _, _)
\* the loop "for i, text in enumerate(texts)" of embed_texts; i is 0-based
CheckCache(texts, i, c, acc) ==
    IF i >= Len(texts) THEN acc
    ELSE LET t == texts[i + 1]
             cache_key == _get_cache_key(t)
         IN  IF cache_key \in CacheKeys(c)
             THEN CheckCache(texts, i + 1, c,
                      [acc EXCEPT !.cached_vectors = Append(@, CacheGet(c, cache_key)),
                                  !.cached_indices = Append(@, i)])
             ELSE CheckCache(texts, i + 1, c,
                      [acc EXCEPT !.texts_to_embed = Append(@, t),
                                  !.indices_to_embed = Append(@, i)])

\* for idx, vec in zip(indices, vecs): vectors[idx] = vec
AssignAll(vectors, indices, vecs) ==
    LET n == Min(Len(indices), Len(vecs))
        Hits(p) == {k \in 1..n : indices[k] = p - 1}
    IN  [p \in 1..Len(vectors) |->
            IF Hits(p) = {} THEN vectors[p]
            ELSE vecs[CHOOSE k \in Hits(p) : \A k2 \in Hits(p) : k2 <= k]]

\* the cached vectors followed by the new ones, positions ignored
Reconstruct_HitsFirst(n, m, new_vectors) == m.cached_vectors \o new_vectors

\* the entries that were assigned a vector, the others left out
Reconstruct_Assigned(n, m, new_vectors) ==
    SelectSeq(AssignAll(AssignAll([p \in 1..n |-> None], m.cached_indices, m.cached_vectors),
                        m.indices_to_embed, new_vectors),
              LAMBDA v : v # None)

\* "Reconstruct results in original order" (embedder.py:95-99)
Reconstruct(n, m, new_vectors) ==
    AssignAll(AssignAll([p \in 1..n |-> None], m.cached_indices, m.cached_vectors),
              m.indices_to_embed, new_vectors)

\* a wait that grows linearly
WaitTime_Linear(a) == 2 * a

\* wait_time = (2 ** attempt)
WaitTime(a) == 2 ^ a

\* an except branch that provides no vectors
OnRetryExhausted_NoVectors(texts_to_embed) == <<>>

\* except Exception: new_vectors = self._embed_fallback(texts_to_embed)
OnRetryExhausted(texts_to_embed) == _embed_fallback(texts_to_embed)

(***************************************************************************)
(* SpecEmbed: one EmbeddingsClient, embed_texts calls one after the other. *)
(* A call is one step up to its remote call; each remote attempt is a step *)
(* that succeeds or raises.                                                *)
(***************************************************************************)
TextPool ==
    << <<"a">>, <<".">>, <<"a", "a">>, <<" ">>, <<"a", ".">>, <<".", "a">>, <<>> >>

EmbedTexts == {TextPool[i] : i \in 1..NumTexts}

Batches == UNION {[1..n -> EmbedTexts] : n \in 0..MaxBatch}

EmbedConstructed ==
    /\ cache = <<>>
    /\ e_pc = "idle"
    /\ e_texts = <<>>
    /\ e_miss = NoMiss
    /\ attempt = 0
    /\ e_attempts = <<>>
    /\ e_sleeps = <<>>
    /\ e_result = <<>>
    /\ e_outcome = "none"
    /\ cache_at_call = <<>>

NoCall == [op |-> "none"]

StoreUnused ==
    /\ connected = FALSE
    /\ container = {}
    /\ document_count = 0
    /\ uuids = 0
    /\ processed = <<>>
    /\ s_last = NoCall

OutageUnused ==
    /\ outage = FALSE
    /\ o_calls = 0
    /\ seen = {}

(***************************************************************************)
(* SpecChunk: chunk_document applied to bounded texts and configurations.  *)
(***************************************************************************)
Pieces == {<<"a">>, <<"a", "a", "a", "a">>, <<".">>, <<" ">>}

RECURSIVE PieceSeqs(_)
PieceSeqs(n) ==
    IF n = 0 THEN {<<>>}
    ELSE LET shorter == PieceSeqs(n - 1)
         IN  shorter \cup {Append(s, p) : s \in {q \in shorter : Len(q) = n - 1},
                                          p \in Pieces}

Texts == {Flatten(s) : s \in PieceSeqs(MaxPieces)}

ChunkConfig(t, m, o, n) ==
    [target_tokens |-> t, max_tokens |-> m, overlap_tokens |-> o, min_chunk_tokens |-> n]

\* target_tokens >= 1, max_tokens >= target_tokens, overlap_tokens >= 0,
\* min_chunk_tokens >= 0, as config.py lines 46-49 give them (500, 550, 50, 60)
Configs ==
    {ChunkConfig(t, m, o, n) : t \in 1..2, m \in 1..2, o \in 0..1, n \in 0..2}
    \ {ChunkConfig(2, 1, o, n) : o \in 0..1, n \in 0..2}

DocId == "doc"

InitChunk ==
    /\ text \in Texts
    /\ config \in Configs
    /\ chunks = <<>>
    /\ c_pc = "input"
    /\ passes = <<>>
    /\ token_count = <<>>
    /\ client = FALSE
    /\ EmbedConstructed
    /\ th = <<>>
    /\ OutageUnused
    /\ StoreUnused

ChunkDocument ==
    /\ c_pc = "input"
    /\ chunks' = chunk_document(text, DocId, config)
    /\ c_pc' = "done"
    /\ UNCHANGED <<text, config, passes, token_count>>
    /\ UNCHANGED chunkFrame

NextChunk == ChunkDocument

SpecChunk == InitChunk /\ [][NextChunk]_vars

\* C1: every passage chunk_document returns counts at most max_tokens tokens
\* (_count_tokens of its final text).
C1_NoPassageExceedsMax ==
    c_pc = "done" =>
        \A k \in 1..Len(chunks) : _count_tokens(chunks[k].text) <= config.max_tokens

\* the passages of the document before the overlap pass
PreOverlap == _merge_small_chunks(AccumulatedChunks(text, DocId, config), config)

\* s is the last Min(Len(t), n) characters of t
IsSuffixOfLength(s, t, n) ==
    /\ Len(s) = Min(Len(t), n)
    /\ s = SubSeq(t, Len(t) - Len(s) + 1, Len(t))

\* C11: with n >= 2 passages and overlap_tokens > 0, the text of passage k > 0
\* is the tail of passage k-1's pre-overlap text (its last 4 * overlap_tokens
\* characters, the whole text when it is shorter), a single space, and passage
\* k's own pre-overlap text; the tail counts at most overlap_tokens tokens and
\* passage 0 is untouched.
C11_OverlapFromPreOverlapTail ==
    (c_pc = "done" /\ Len(chunks) >= 2 /\ config.overlap_tokens > 0) =>
        /\ Len(chunks) = Len(PreOverlap)
        /\ chunks[1] = PreOverlap[1]
        /\ \A k \in 2..Len(chunks) :
              LET own == PreOverlap[k].text
                  tail == SubSeq(chunks[k].text, 1, Len(chunks[k].text) - Len(own) - 1)
              IN  /\ Len(chunks[k].text) >= Len(own) + 1
                  /\ chunks[k].text = tail \o <<" ">> \o own
                  /\ IsSuffixOfLength(tail, PreOverlap[k - 1].text,
                                      config.overlap_tokens * CharsPerToken)
                  /\ _count_tokens(tail) <= config.overlap_tokens
                  /\ chunks[k].chunk_index = PreOverlap[k].chunk_index

\* three passages with an overlap, the first longer than the overlap, so that
\* only its last characters are carried into the second
C11_Witness ==
    /\ c_pc = "done"
    /\ config.overlap_tokens > 0
    /\ Len(chunks) >= 3
    /\ Len(PreOverlap[1].text) > config.overlap_tokens * CharsPerToken
    /\ PreOverlap[1].text # PreOverlap[2].text
    /\ chunks[2].text # PreOverlap[2].text

TextsOf(cs) == [k \in 1..Len(cs) |-> cs[k].text]

\* the passage texts the sentence loop produces for a sentence sequence taken
\* on its own
AccumulatedTexts(sentences) ==
    TextsOf(AccumulateSentences(sentences, <<>>, <<>>, 0, DocId, config))

\* C23: for every sentence whose token count exceeds max_tokens, the passages
\* before the merge pass are: the passages of the sentences before it, closed
\* as if the document ended there; then the consecutive pieces of the
\* sentence, each non-empty and of at most max_tokens tokens, in order; then
\* the passages of the sentences after it, accumulated from an empty buffer.
C23_OversizedSentenceSplit ==
    c_pc = "done" =>
        LET S == _split_sentences(text)
            all == AccumulatedTexts(S)
        IN  \A j \in 1..Len(S) :
              _count_tokens(S[j]) > config.max_tokens =>
                LET before == AccumulatedTexts(SubSeq(S, 1, j - 1))
                    after == AccumulatedTexts(SubSeq(S, j + 1, Len(S)))
                    pieces == SubSeq(all, Len(before) + 1, Len(all) - Len(after))
                IN  /\ Len(all) >= Len(before) + Len(after) + 1
                    /\ all = before \o pieces \o after
                    /\ Flatten(pieces) = S[j]
                    /\ \A k \in 1..Len(pieces) :
                          /\ pieces[k] # <<>>
                          /\ _count_tokens(pieces[k]) <= config.max_tokens
                    /\ (config.min_chunk_tokens = 0 /\ config.overlap_tokens = 0) =>
                          TextsOf(chunks) = all

\* a sentence in the buffer, then an oversized sentence cut into three pieces,
\* the last one shorter
C23_Witness ==
    /\ c_pc = "done"
    /\ config.min_chunk_tokens = 0
    /\ config.overlap_tokens = 0
    /\ Len(_split_sentences(text)) = 2
    /\ _count_tokens(_split_sentences(text)[2]) > config.max_tokens
    /\ Len(chunks) = 4
    /\ chunks[1].text = _split_sentences(text)[1]
    /\ Len(chunks[4].text) < Len(chunks[3].text)

RECURSIVE RunningTotal(_)
\* current_tokens after the sentences were added to the buffer one by one
RunningTotal(sentences) ==
    IF sentences = <<>> THEN 0
    ELSE _count_tokens(Head(sentences)) + RunningTotal(Tail(sentences))

\* C30: a document with at least one sentence whose sentences fit together
\* within target_tokens (their token counts add up to at most target_tokens),
\* chunked with min_chunk_tokens = 0, yields exactly one passage, of index 0,
\* whose text is the sentences joined by single spaces, without overlap text.
C30_SmallDocumentOnePassage ==
    (/\ c_pc = "done"
     /\ config.min_chunk_tokens = 0
     /\ _split_sentences(text) # <<>>
     /\ RunningTotal(_split_sentences(text)) <= config.target_tokens)
    => /\ Len(chunks) = 1
       /\ chunks[1].chunk_index = 0
       /\ chunks[1].text = Join(_split_sentences(text), <<" ">>)

\* a document of two sentences that fit together, chunked with an overlap
C30_Witness ==
    /\ c_pc = "done"
    /\ config.min_chunk_tokens = 0
    /\ config.overlap_tokens > 0
    /\ Len(_split_sentences(text)) = 2
    /\ RunningTotal(_split_sentences(text)) = config.target_tokens
    /\ Len(chunks) = 1

\* the groups of sentences the loop of chunk_document builds from the text
Groups == AccumulateGroups(_split_sentences(text), <<>>, <<>>, 0, config)

\* the texts of the passages of a group
GroupTexts(g) ==
    IF g.hard THEN _hard_split(g.sentences[1], config)
    ELSE <<Join(g.sentences, <<" ">>)>>

\* C31: accumulation is greedy.  The passages before the merge pass are those
\* of the groups, every sentence being in one group, in order; an accumulated
\* passage holds sentences of at most max_tokens, its running total is at most
\* target_tokens when it holds two sentences or more, and of two consecutive
\* accumulated passages the running total of the first plus the token count
\* of the first sentence of the second exceeds target_tokens.
C31_GreedyAccumulation ==
    c_pc = "done" =>
        LET G == Groups
        IN  /\ Flatten([i \in 1..Len(G) |-> G[i].sentences]) = _split_sentences(text)
            /\ Flatten([i \in 1..Len(G) |-> GroupTexts(G[i])])
                  = AccumulatedTexts(_split_sentences(text))
            /\ \A i \in 1..Len(G) :
                  /\ G[i].sentences # <<>>
                  /\ G[i].hard =>
                        _count_tokens(G[i].sentences[1]) > config.max_tokens
                  /\ ~G[i].hard =>
                        \A k \in 1..Len(G[i].sentences) :
                           _count_tokens(G[i].sentences[k]) <= config.max_tokens
                  /\ (~G[i].hard /\ Len(G[i].sentences) >= 2) =>
                        RunningTotal(G[i].sentences) <= config.target_tokens
            /\ \A i \in 1..(Len(G) - 1) :
                  (~G[i].hard /\ ~G[i + 1].hard) =>
                     RunningTotal(G[i].sentences) + _count_tokens(G[i + 1].sentences[1])
                        > config.target_tokens

\* a passage of two sentences closed by a third sentence that did not fit
C31_Witness ==
    /\ c_pc = "done"
    /\ Len(Groups) = 2
    /\ ~Groups[1].hard
    /\ ~Groups[2].hard
    /\ Len(Groups[1].sentences) = 2
    /\ RunningTotal(Groups[1].sentences) = config.target_tokens

\* C22: the passages chunk_document returns are indexed densely from 0: the
\* k-th passage (counting from 0) has chunk_index = k, after the merge and
\* overlap passes.
C22_DenseIndices ==
    c_pc = "done" =>
        \A k \in 1..Len(chunks) : chunks[k].chunk_index = k - 1

\* the merge pass joined passages, at least two are left, and the overlap
\* pass rewrote the later ones
C22_Witness ==
    /\ c_pc = "done"
    /\ Len(chunks) >= 2
    /\ Len(chunks) < Len(AccumulatedChunks(text, DocId, config))
    /\ config.overlap_tokens > 0
    /\ chunks[2].text # PreOverlap[2].text

\* the characters of t that are not whitespace, in order
NonSpace(t) == SelectSeq(t, LAMBDA c : ~IsSpace(c))

HardSplitHappened ==
    \E k \in 1..Len(_split_sentences(text)) :
        _count_tokens(_split_sentences(text)[k]) > config.max_tokens

MaxPassages == 3

MaxPasses == 2

\* passage texts of 0, 0, 1 and 2 tokens
PassageTexts ==
    {<<"a">>, <<"a", "a", "a">>, <<"a", "a", "a", "a">>,
     <<"a", "a", "a", "a", "a", "a", "a", "a">>}

\* the passages a caller can hand over: any text, any index
Passages == {Chunk(t, index, DocId) : t \in PassageTexts, index \in 0..1}

RECURSIVE PassageSeqs(_)
PassageSeqs(n) ==
    IF n = 0 THEN {<<>>}
    ELSE LET shorter == PassageSeqs(n - 1)
         IN  shorter \cup {Append(s, p) : s \in {q \in shorter : Len(q) = n - 1},
                                          p \in Passages}

InitMerge ==
    /\ text = <<>>
    /\ config \in {c \in Configs : c.target_tokens = 1 /\ c.max_tokens = 1
                                   /\ c.overlap_tokens = 0}
    /\ chunks \in PassageSeqs(MaxPassages)
    /\ c_pc = "input"
    /\ passes = <<>>
    /\ token_count = <<>>
    /\ client = FALSE
    /\ EmbedConstructed
    /\ th = <<>>
    /\ OutageUnused
    /\ StoreUnused

\* merged = self._merge_small_chunks(chunks), then the same call on merged
MergeSmallChunks ==
    /\ Len(passes) < MaxPasses
    /\ passes' = Append(passes,
                        _merge_small_chunks(IF passes = <<>> THEN chunks
                                            ELSE passes[Len(passes)], config))
    /\ UNCHANGED <<text, config, chunks, c_pc, token_count>>
    /\ UNCHANGED chunkFrame

NextMerge == MergeSmallChunks

SpecMerge == InitMerge /\ [][NextMerge]_vars

\* C12: applying _merge_small_chunks to what _merge_small_chunks returned, with
\* the same min_chunk_tokens, returns the same passages: same texts, same
\* order, same indices.
C12_MergeIdempotent ==
    \A i \in 2..Len(passes) : passes[i] = passes[i - 1]

\* the first pass joined small passages, left a small one behind a large one,
\* and was applied again
C12_Witness ==
    /\ Len(passes) >= 2
    /\ Len(passes[1]) >= 2
    /\ Len(passes[1]) < Len(chunks)
    /\ \E k \in 1..Len(passes[1]) :
          _count_tokens(passes[1][k].text) < config.min_chunk_tokens

\* a passage of fewer than min_chunk_tokens tokens
Undersized(c) == _count_tokens(c.text) < config.min_chunk_tokens

\* C33: in what _merge_small_chunks returns no two consecutive passages are
\* both below min_chunk_tokens: an undersized passage is followed by a passage
\* of at least min_chunk_tokens tokens or is the last one.
C33_NoTwoUndersizedInARow ==
    \A i \in 1..Len(passes) :
       \A k \in 1..(Len(passes[i]) - 1) :
          ~(Undersized(passes[i][k]) /\ Undersized(passes[i][k + 1]))

\* two small passages were joined, the joined passage is still undersized and
\* is followed by a passage of at least min_chunk_tokens tokens
C33_Witness ==
    /\ passes # <<>>
    /\ Len(chunks) = 3
    /\ Len(passes[1]) = 2
    /\ Undersized(passes[1][1])
    /\ passes[1][1].text = chunks[1].text \o <<" ">> \o chunks[2].text
    /\ ~Undersized(passes[1][2])

\* C34: the merge pass loses and reorders no text: the texts of the passages
\* it returns, joined with single spaces, are the texts of the passages it was
\* given, joined with single spaces, and it returns no more passages than it
\* was given.
C34_MergeKeepsText ==
    passes # <<>> =>
        /\ Join([k \in 1..Len(passes[1]) |-> passes[1][k].text], <<" ">>)
              = Join([k \in 1..Len(chunks) |-> chunks[k].text], <<" ">>)
        /\ Len(passes[1]) <= Len(chunks)

\* three passages given, the first two joined into one that reached
\* min_chunk_tokens, the third, undersized, left in the buffer and returned
C34_Witness ==
    /\ passes # <<>>
    /\ Len(chunks) = 3
    /\ Len(passes[1]) = 2
    /\ ~Undersized(passes[1][1])
    /\ passes[1][1].text = chunks[1].text \o <<" ">> \o chunks[2].text
    /\ Undersized(passes[1][2])

(***************************************************************************)
(* SpecCount: _count_tokens applied to bounded texts.                      *)
(***************************************************************************)
InitCount ==
    /\ text \in Texts
    /\ config = ChunkConfig(1, 1, 0, 0)
    /\ chunks = <<>>
    /\ c_pc = "input"
    /\ passes = <<>>
    /\ token_count = <<>>
    /\ client = FALSE
    /\ EmbedConstructed
    /\ th = <<>>
    /\ OutageUnused
    /\ StoreUnused

\* self._count_tokens(text), no encoder
CountTokens ==
    /\ token_count = <<>>
    /\ token_count' = <<_count_tokens(text)>>
    /\ UNCHANGED <<text, config, chunks, c_pc, passes>>
    /\ UNCHANGED chunkFrame

NextCount == CountTokens

SpecCount == InitCount /\ [][NextCount]_vars

\* C14: _count_tokens(text) >= 1 for every non-empty text, and without an
\* encoder the count is len(text) // 4.
C14_NonEmptyCountsAtLeastOne ==
    (token_count # <<>> /\ text # <<>>) =>
        /\ token_count[1] >= 1
        /\ token_count[1] = Len(text) \div 4

ChunkUnused ==
    /\ text = <<>>
    /\ config = ChunkConfig(1, 1, 0, 0)
    /\ chunks = <<>>
    /\ c_pc = "input"
    /\ passes = <<>>
    /\ token_count = <<>>

InitEmbed ==
    /\ client \in BOOLEAN
    /\ EmbedConstructed
    /\ ChunkUnused
    /\ th = <<>>
    /\ OutageUnused
    /\ StoreUnused

\* embed_texts(texts) up to its return, or up to the first remote call
EmbedTextsCall(texts) ==
    /\ e_pc = "idle"
    /\ e_texts' = texts
    /\ cache_at_call' = cache
    /\ attempt' = 0
    /\ e_attempts' = <<>>
    /\ e_sleeps' = <<>>
    /\ UNCHANGED <<client, embedFrame>>
    /\ IF texts = <<>>
       THEN /\ e_result' = <<>>
            /\ e_outcome' = "empty"
            /\ e_miss' = NoMiss
            /\ UNCHANGED <<cache, e_pc>>
       ELSE LET m == CheckCache(texts, 0, cache, NoMiss)
            IN  /\ e_miss' = m
                /\ IF m.texts_to_embed = <<>>
                   THEN /\ e_result' = Reconstruct(Len(texts), m, <<>>)
                        /\ e_outcome' = "hits"
                        /\ UNCHANGED <<cache, e_pc>>
                   ELSE IF ~client
                   THEN LET new_vectors == _embed_fallback(m.texts_to_embed)
                        IN  /\ cache' = UpdateCacheAll(cache, m.texts_to_embed, new_vectors)
                            /\ e_result' = Reconstruct(Len(texts), m, new_vectors)
                            /\ e_outcome' = "no_client"
                            /\ UNCHANGED e_pc
                   ELSE /\ e_pc' = "remote"
                        /\ e_outcome' = "pending"
                        /\ UNCHANGED <<cache, e_result>>

\* an attempt of _embed_with_openai_retry returns the vectors: the cache is
\* updated and embed_texts returns
RemoteSuccess ==
    /\ e_pc = "remote"
    /\ LET new_vectors == RemoteEmbeddings(e_miss.texts_to_embed)
       IN  /\ e_attempts' = Append(e_attempts, [batch |-> e_miss.texts_to_embed, ok |-> TRUE])
           /\ cache' = UpdateCacheAll(cache, e_miss.texts_to_embed, new_vectors)
           /\ e_result' = Reconstruct(Len(e_texts), e_miss, new_vectors)
    /\ e_outcome' = "remote"
    /\ e_pc' = "idle"
    /\ UNCHANGED <<client, e_texts, e_miss, attempt, e_sleeps, cache_at_call, embedFrame>>

\* a retry loop whose counter starts over instead of reaching max_retries - 1
RemoteFailRetry_Restart ==
    /\ e_pc = "remote"
    /\ attempt < max_retries - 1
    /\ attempt' = IF attempt + 1 < max_retries - 1 THEN attempt + 1 ELSE 0
    /\ UNCHANGED <<client, cache, e_pc, e_texts, e_miss, e_result, e_outcome,
                   e_attempts, e_sleeps, cache_at_call, embedFrame>>

\* an attempt raises and attempt < max_retries - 1: sleep, then the next attempt
RemoteFailRetry ==
    /\ e_pc = "remote"
    /\ attempt < max_retries - 1
    /\ e_attempts' = Append(e_attempts, [batch |-> e_miss.texts_to_embed, ok |-> FALSE])
    /\ e_sleeps' = Append(e_sleeps, WaitTime(attempt))
    /\ attempt' = attempt + 1
    /\ UNCHANGED <<client, cache, e_pc, e_texts, e_miss, e_result, e_outcome,
                   cache_at_call, embedFrame>>

\* the last attempt raises: _embed_with_openai_retry re-raises, embed_texts
\* catches (embedder.py:88-90) and returns
RemoteFailExhausted ==
    /\ e_pc = "remote"
    /\ ~(attempt < max_retries - 1)
    /\ e_attempts' = Append(e_attempts, [batch |-> e_miss.texts_to_embed, ok |-> FALSE])
    /\ e_result' = Reconstruct(Len(e_texts), e_miss, OnRetryExhausted(e_miss.texts_to_embed))
    /\ e_outcome' = "exhausted"
    /\ e_pc' = "idle"
    /\ UNCHANGED <<client, cache, e_texts, e_miss, attempt, e_sleeps, cache_at_call,
                   embedFrame>>

NextEmbed ==
    \/ \E texts \in Batches : EmbedTextsCall(texts)
    \/ RemoteSuccess
    \/ RemoteFailRetry
    \/ RemoteFailExhausted

SpecEmbed == InitEmbed /\ [][NextEmbed]_vars

Spec == SpecEmbed

\* an attempt of the retry loop: self._client.embeddings.create(...) returns
\* or raises
RemoteAttempt == RemoteSuccess \/ RemoteFailRetry \/ RemoteFailExhausted

\* the batches of two texts of the pool: enough for calls of hits, of misses
\* and of both
RetryBatches == {b \in Batches : \A k \in 1..Len(b) : b[k] \in {TextPool[1], TextPool[2]}}

NextEmbedFair ==
    \/ \E texts \in RetryBatches : EmbedTextsCall(texts)
    \/ RemoteSuccess
    \/ RemoteFailRetry
    \/ RemoteFailExhausted

\* SpecEmbedFair: calls one after the other, where an attempt that was started
\* returns or raises; nothing is required of the callers of embed_texts
SpecEmbedFair == InitEmbed /\ [][NextEmbedFair]_vars /\ WF_vars(RemoteAttempt)

\* embed_texts has returned (the state right after a completed call)
Returned == e_pc = "idle" /\ e_outcome \notin {"none", "pending"}

\* 0-based position of input position p among the misses of the call
MissPosition(p) ==
    Cardinality({q \in 1..(p - 1) : _get_cache_key(e_texts[q]) \notin CacheKeys(cache_at_call)})

IsHit(p) == _get_cache_key(e_texts[p]) \in CacheKeys(cache_at_call)

\* the call that entered the retry loop has returned, after at most
\* max_retries attempts, with remote vectors for its misses after a successful
\* attempt and fallback vectors after max_retries failed ones
RetryLoopReturned ==
    /\ Returned
    /\ e_outcome \in {"remote", "exhausted"}
    /\ Len(e_attempts) <= max_retries
    /\ Len(e_result) = Len(e_texts)
    /\ IF e_outcome = "remote"
       THEN /\ e_attempts[Len(e_attempts)].ok
            /\ \A p \in 1..Len(e_texts) : ~IsHit(p) => e_result[p].src = "remote"
       ELSE /\ Len(e_attempts) = max_retries
            /\ \A i \in 1..Len(e_attempts) : ~e_attempts[i].ok
            /\ \A p \in 1..Len(e_texts) : ~IsHit(p) => e_result[p].src = "fallback"

\* C29: every embed_texts call terminates: a call that entered the retry loop
\* returns, after a successful attempt with the remote vectors or after the
\* third failed attempt with the fallback vectors, provided each attempt
\* returns or raises (a call that does not enter the loop returns in its one
\* step).
C29_EmbedTextsTerminates == (e_pc = "remote") ~> RetryLoopReturned

\* a call returned after its third attempt failed
C29_Witness ==
    /\ Returned
    /\ e_outcome = "exhausted"
    /\ Len(e_attempts) = max_retries
    /\ e_sleeps = <<1, 2>>

\* C2: embed_texts returns exactly len(texts) vectors and the vector at
\* position p is the vector of texts[p], whatever the hit/miss partition.
C2_OrderPreserved ==
    Returned =>
        /\ Len(e_result) = Len(e_texts)
        /\ \A p \in 1..Len(e_texts) : e_result[p] # None /\ e_result[p].of = e_texts[p]

\* a returned call whose first input was a miss and whose second, a different
\* text, was a hit
C2_Witness ==
    /\ Returned
    /\ Len(e_texts) = 2
    /\ e_texts[1] # e_texts[2]
    /\ ~IsHit(1)
    /\ IsHit(2)
    /\ e_outcome = "remote"

\* C24: a text whose key is in the cache when embed_texts is called gets the
\* vector the cache holds for it, and is not sent to the remote service; a call
\* whose inputs are all in the cache makes no remote attempt and leaves the
\* cache as it was.
C24_CacheHitsReturned ==
    Returned =>
        /\ \A p \in 1..Len(e_texts) :
              IsHit(p) =>
                /\ \E i \in 1..Len(cache_at_call) :
                      /\ cache_at_call[i].key = _get_cache_key(e_texts[p])
                      /\ e_result[p] = cache_at_call[i].vector
                /\ \A a \in 1..Len(e_attempts) :
                      \A b \in 1..Len(e_attempts[a].batch) :
                          e_attempts[a].batch[b] # e_texts[p]
        /\ (e_texts # <<>> /\ \A p \in 1..Len(e_texts) : IsHit(p)) =>
              /\ e_attempts = <<>>
              /\ cache = cache_at_call
              /\ e_outcome = "hits"

\* a call of two different texts, both in the cache, the first with a vector
\* that computing it anew at this position would not give
C24_Witness ==
    /\ Returned
    /\ e_outcome = "hits"
    /\ Len(e_texts) = 2
    /\ e_texts[1] # e_texts[2]
    /\ e_result[1].src = "fallback"
    /\ e_result[1] # FallbackVector(e_texts[1], 0)
    /\ cache = cache_at_call

\* C3: the cache never holds more than max_cache_size entries.
C3_CacheBounded == Len(cache) <= max_cache_size

\* the cache is full and an entry has been evicted
C3_Witness ==
    /\ Len(cache) = max_cache_size
    /\ \E i \in 1..Len(cache_at_call) : cache_at_call[i].key \notin CacheKeys(cache)

\* the keys the last call stored that were not in the cache when it started
NewKeys ==
    {_get_cache_key(e_texts[p]) : p \in {q \in 1..Len(e_texts) : ~IsHit(q)}}

\* C4: eviction is first-in-first-out: when a call stores one new key into a
\* full cache (max_cache_size + 1 distinct keys inserted in order), the
\* first-inserted key is absent and all later ones are present; and a call
\* that only hits leaves the cache, and so the entry evicted next, as it was.
C4_StrictFifo ==
    /\ (/\ Returned
        /\ e_outcome \in {"remote", "no_client"}
        /\ Len(cache_at_call) = max_cache_size
        /\ Cardinality(NewKeys) = 1) =>
           /\ cache_at_call[1].key \notin CacheKeys(cache)
           /\ \A i \in 2..Len(cache_at_call) : cache_at_call[i].key \in CacheKeys(cache)
           /\ NewKeys \subseteq CacheKeys(cache)
    /\ (Returned /\ e_outcome = "hits") => cache = cache_at_call

\* the keys that were in the cache when the last call started and are gone
EvictedKeys == {cache_at_call[i].key : i \in 1..Len(cache_at_call)} \ CacheKeys(cache)

\* C25: entries leave the cache by the capacity rule only: a call evicts one
\* entry for each new key it stores beyond the capacity and none otherwise;
\* storing a vector for a key that is already present evicts nothing.
C25_EvictionOnlyByCapacity ==
    Returned =>
        LET stored == e_outcome \in {"remote", "no_client"}
            overflow == Len(cache_at_call) + Cardinality(NewKeys) - max_cache_size
        IN  Cardinality(EvictedKeys) =
              IF stored /\ overflow > 0 THEN Min(overflow, Len(cache_at_call)) ELSE 0

Pow2(n) == 2 ^ n

\* C6: at most 3 remote attempts per call, each with all miss texts in input
\* order as one batch; 2^attempt seconds of wait between consecutive attempts
\* (1 s, then 2 s); no attempt after a successful one.
C6_BoundedRetry ==
    /\ Len(e_attempts) <= 3
    /\ \A i \in 1..Len(e_attempts) :
          /\ e_attempts[i].batch =
                SelectSeq(e_texts, LAMBDA t : _get_cache_key(t) \notin CacheKeys(cache_at_call))
          /\ i < Len(e_attempts) => ~e_attempts[i].ok
    /\ LET failed == Cardinality({i \in 1..Len(e_attempts) : ~e_attempts[i].ok})
       IN  e_sleeps = [i \in 1..Min(failed, 2) |-> Pow2(i - 1)]
    /\ (e_pc = "remote") => Len(e_attempts) = Len(e_sleeps)

\* a call that made its third attempt after waits of 1 s and 2 s, with two
\* miss texts in the batch
C6_Witness ==
    /\ Len(e_attempts) = 3
    /\ e_sleeps = <<1, 2>>
    /\ Len(e_attempts[3].batch) = 2

\* C7: when every remote attempt fails, embed_texts returns: the fallback
\* vector for each miss text and the cached vector for each hit text.
C7_FallbackOnExhaustion ==
    (e_pc = "idle" /\ Len(e_attempts) = 3 /\ \A i \in 1..3 : ~e_attempts[i].ok) =>
        /\ Returned
        /\ Len(e_result) = Len(e_texts)
        /\ \A p \in 1..Len(e_texts) :
              e_result[p] = IF IsHit(p)
                            THEN CacheGet(cache_at_call, _get_cache_key(e_texts[p]))
                            ELSE FallbackVector(e_texts[p], MissPosition(p))

\* a call with a hit and then a miss whose three attempts all failed
C7_Witness ==
    /\ e_pc = "idle"
    /\ e_outcome = "exhausted"
    /\ Len(e_texts) = 2
    /\ IsHit(1)
    /\ ~IsHit(2)

(***************************************************************************)
(* SpecFallback: _embed_fallback applied to bounded batches of texts, the  *)
(* empty text included.                                                    *)
(***************************************************************************)
FallbackBatches ==
    UNION {[1..n -> {TextPool[i] : i \in 1..Len(TextPool)}] : n \in 0..MaxBatch}

InitFallback ==
    /\ ChunkUnused
    /\ client = FALSE
    /\ cache = <<>>
    /\ e_pc = "idle"
    /\ e_texts \in FallbackBatches
    /\ e_miss = NoMiss
    /\ attempt = 0
    /\ e_attempts = <<>>
    /\ e_sleeps = <<>>
    /\ e_result = <<>>
    /\ e_outcome = "none"
    /\ cache_at_call = <<>>
    /\ th = <<>>
    /\ OutageUnused
    /\ StoreUnused

\* vectors = self._embed_fallback(texts)
EmbedFallback ==
    /\ e_outcome = "none"
    /\ e_result' = _embed_fallback(e_texts)
    /\ e_outcome' = "fallback"
    /\ UNCHANGED <<client, cache, e_pc, e_texts, e_miss, attempt, e_attempts,
                   e_sleeps, cache_at_call>>
    /\ UNCHANGED embedFrame

NextFallback == EmbedFallback

SpecFallback == InitFallback /\ [][NextFallback]_vars

\* C15: the fallback vector of the text at 0-based position i of the batch has
\* exactly dim components, and component j (0-based) is
\* ((base * (j + i + 1)) mod 17) / 17, base being the sum of the character codes
\* of the text, or 1 when that sum is 0; components are held as numerators
\* over 17.  The right-hand side depends on the text and the position alone,
\* so two calls with the same text at the same position agree.
C15_FallbackVectorFormula ==
    e_outcome = "fallback" =>
        /\ Len(e_result) = Len(e_texts)
        /\ \A k \in 1..Len(e_texts) :
              LET i == k - 1
                  sum == SumOrd(e_texts[k])
                  base == IF sum = 0 THEN 1 ELSE sum
              IN  /\ Len(e_result[k].comps) = Dim
                  /\ \A j \in 0..(Dim - 1) :
                        e_result[k].comps[j + 1] = (base * (j + i + 1)) % 17

\* a batch of two texts, the second the empty text (character codes sum to 0)
C15_Witness ==
    /\ e_outcome = "fallback"
    /\ Len(e_texts) = 2
    /\ e_texts[1] # <<>>
    /\ e_texts[2] = <<>>
    /\ e_result[2].comps[1] = 2

\* C8: every vector held in the cache was returned by the remote service; a
\* synthetic fallback vector is never stored.
C8_OnlyRemoteVectorsCached ==
    \A i \in 1..Len(cache) : cache[i].vector.src = "remote"

(***************************************************************************)
(* SpecConc: two request threads call embed_texts on the same client.      *)
(* embed_texts and _update_cache take no lock; a thread can be preempted   *)
(* between any two accesses of self._cache, so each access is a step.  The *)
(* retry loop touches no shared state and is one step per outcome.         *)
(***************************************************************************)
Threads == {"t1", "t2"}

ThreadIdle ==
    [pc |-> "idle", texts |-> <<>>, i |-> 0, miss |-> NoMiss, new_vectors |-> <<>>,
     k |-> 0, oldest_key |-> <<>>, outcome |-> "none"]

\* each request embeds one text (a chat question)
ConcBatches == {<<t>> : t \in EmbedTexts}

InitConc ==
    /\ client \in BOOLEAN
    /\ cache = <<>>
    /\ th = [t \in Threads |-> ThreadIdle]
    /\ OutageUnused
    /\ e_pc = "idle"
    /\ e_texts = <<>>
    /\ e_miss = NoMiss
    /\ attempt = 0
    /\ e_attempts = <<>>
    /\ e_sleeps = <<>>
    /\ e_result = <<>>
    /\ e_outcome = "none"
    /\ cache_at_call = <<>>
    /\ ChunkUnused
    /\ StoreUnused

\* embed_texts is left (return or raise): its locals are gone
Left(outcome) == [ThreadIdle EXCEPT !.outcome = outcome]

\* the thread leaves the check loop: no miss, no client, or the remote call
AfterCheck(s) ==
    IF s.i < Len(s.texts) THEN s
    ELSE IF s.miss.texts_to_embed = <<>>
         THEN Left("hits")
    ELSE IF ~client
         THEN [s EXCEPT !.pc = "upd_len", !.k = 1,
                        !.new_vectors = _embed_fallback(s.miss.texts_to_embed)]
    ELSE [s EXCEPT !.pc = "remote"]

\* embed_texts(texts) is entered with a non-empty list
ConcCall(t, texts) ==
    /\ th[t].pc = "idle"
    /\ th' = [th EXCEPT ![t] = [ThreadIdle EXCEPT !.pc = "check", !.texts = texts]]
    /\ UNCHANGED <<cache, concFrame>>

\* line 62: cache_key in self._cache
ConcCheck(t) ==
    LET s == th[t]
        tx == s.texts[s.i + 1]
    IN  /\ s.pc = "check"
        /\ IF _get_cache_key(tx) \in CacheKeys(cache)
           THEN th' = [th EXCEPT ![t].pc = "read"]
           ELSE th' = [th EXCEPT ![t] =
                          AfterCheck([s EXCEPT !.i = @ + 1,
                                               !.miss.texts_to_embed = Append(@, tx),
                                               !.miss.indices_to_embed = Append(@, s.i)])]
        /\ UNCHANGED <<cache, concFrame>>

\* line 63: self._cache[cache_key]; KeyError leaves embed_texts (the loop is
\* outside the try block) when the entry was evicted since line 62
ConcRead(t) ==
    LET s == th[t]
        key == _get_cache_key(s.texts[s.i + 1])
    IN  /\ s.pc = "read"
        /\ IF key \in CacheKeys(cache)
           THEN th' = [th EXCEPT ![t] =
                          AfterCheck([s EXCEPT !.i = @ + 1, !.pc = "check",
                                               !.miss.cached_vectors = Append(@, CacheGet(cache, key)),
                                               !.miss.cached_indices = Append(@, s.i)])]
           ELSE th' = [th EXCEPT ![t] = Left("raised_KeyError")]
        /\ UNCHANGED <<cache, concFrame>>

\* _embed_with_openai_retry returns the vectors
ConcRemoteSuccess(t) ==
    /\ th[t].pc = "remote"
    /\ th' = [th EXCEPT ![t].pc = "upd_len", ![t].k = 1,
                        ![t].new_vectors = RemoteEmbeddings(th[t].miss.texts_to_embed)]
    /\ UNCHANGED <<cache, concFrame>>

\* _embed_with_openai_retry raises after its last attempt: fallback, return
ConcRemoteExhausted(t) ==
    /\ th[t].pc = "remote"
    /\ th' = [th EXCEPT ![t] = Left("exhausted")]
    /\ UNCHANGED <<cache, concFrame>>

\* line 114: len(self._cache) >= self._max_cache_size, for the k-th pair of
\* zip(texts_to_embed, new_vectors); after the last pair embed_texts returns
ConcUpdateLen(t) ==
    LET s == th[t]
    IN  /\ s.pc = "upd_len"
        /\ th' = [th EXCEPT ![t] =
                     IF s.k > Min(Len(s.miss.texts_to_embed), Len(s.new_vectors))
                     THEN Left("stored")
                     ELSE IF Len(cache) >= max_cache_size THEN [s EXCEPT !.pc = "upd_oldest"]
                     ELSE [s EXCEPT !.pc = "upd_set"]]
        /\ UNCHANGED <<cache, concFrame>>

\* line 116: oldest_key = next(iter(self._cache)); StopIteration on an empty
\* dict is caught by embed_texts (line 88)
ConcUpdateOldest(t) ==
    /\ th[t].pc = "upd_oldest"
    /\ IF cache # <<>>
       THEN th' = [th EXCEPT ![t].pc = "upd_del", ![t].oldest_key = cache[1].key]
       ELSE th' = [th EXCEPT ![t] = Left("update_raised")]
    /\ UNCHANGED <<cache, concFrame>>

\* line 117: del self._cache[oldest_key]; KeyError is caught by embed_texts
\* (line 88), which returns fallback vectors and stores nothing more
ConcUpdateDel(t) ==
    LET s == th[t]
    IN  /\ s.pc = "upd_del"
        /\ IF s.oldest_key \in CacheKeys(cache)
           THEN /\ cache' = SelectSeq(cache, LAMBDA e : e.key # s.oldest_key)
                /\ th' = [th EXCEPT ![t].pc = "upd_set"]
                /\ UNCHANGED concFrame
           ELSE /\ th' = [th EXCEPT ![t] = Left("update_raised")]
                /\ UNCHANGED <<cache, concFrame>>

\* line 118: self._cache[key] = vector
ConcUpdateSet(t) ==
    LET s == th[t]
    IN  /\ s.pc = "upd_set"
        /\ cache' = DictSet(cache, _get_cache_key(s.miss.texts_to_embed[s.k]),
                            s.new_vectors[s.k])
        /\ th' = [th EXCEPT ![t].pc = "upd_len", ![t].k = @ + 1]
        /\ UNCHANGED concFrame

NextConc ==
    \/ \E t \in Threads, texts \in ConcBatches : ConcCall(t, texts)
    \/ \E t \in Threads : ConcCheck(t)
    \/ \E t \in Threads : ConcRead(t)
    \/ \E t \in Threads : ConcRemoteSuccess(t)
    \/ \E t \in Threads : ConcRemoteExhausted(t)
    \/ \E t \in Threads : ConcUpdateLen(t)
    \/ \E t \in Threads : ConcUpdateOldest(t)
    \/ \E t \in Threads : ConcUpdateDel(t)
    \/ \E t \in Threads : ConcUpdateSet(t)

SpecConc == InitConc /\ [][NextConc]_vars

\* C9: with concurrent embed_texts calls on one client the cache accesses
\* exclude each other: the cache never holds more than max_cache_size entries
\* and no insertion is lost (a cache update, once started, stores its entries).
C9_ConcurrentCacheSafe ==
    /\ Len(cache) <= max_cache_size
    /\ \A t \in Threads : th[t].outcome \notin {"update_raised", "raised_KeyError"}

\* process_file is called for at most MaxDocs documents that get an id.
MaxDocs == 1

\* search_similar is called with top_k in 1..MaxTopK.
MaxTopK == 2

\* Distances and similarities are numbers of 1/Unit-ths.
Unit == 2

(***************************************************************************)
(* CosmosDBClient and DocumentProcessor.process_file.  The container is    *)
(* the set of stored items (one per id); a distance is a number of         *)
(* 1/Unit-ths, so that similarity = 1 - distance is Unit - distance.       *)
(***************************************************************************)
\* [item.embedding for item in response.data] (embedder.py:124-132) of a
\* response that holds the items of the first `returned` inputs only
ShortRemoteEmbeddings(batch, returned) ==
    SubSeq(RemoteEmbeddings(batch), 1, Min(returned, Len(batch)))

\* embed_texts as one step, for a caller that waits for it: remote_ok tells
\* whether the retry loop returned vectors or raised after its last attempt,
\* returned how many items the response of the remote service held
EmbedTextsReturning(c, texts, has_client, remote_ok, returned) ==
    IF texts = <<>> THEN [vectors |-> <<>>, cache |-> c]
    ELSE LET m == CheckCache(texts, 0, c, NoMiss)
         IN  IF m.texts_to_embed = <<>>
             THEN [vectors |-> Reconstruct(Len(texts), m, <<>>), cache |-> c]
             ELSE IF ~has_client
             THEN LET nv == _embed_fallback(m.texts_to_embed)
                  IN  [vectors |-> Reconstruct(Len(texts), m, nv),
                       cache |-> UpdateCacheAll(c, m.texts_to_embed, nv)]
             ELSE IF remote_ok
             THEN LET nv == ShortRemoteEmbeddings(m.texts_to_embed, returned)
                  IN  [vectors |-> Reconstruct(Len(texts), m, nv),
                       cache |-> UpdateCacheAll(c, m.texts_to_embed, nv)]
             ELSE [vectors |-> Reconstruct(Len(texts), m,
                                           OnRetryExhausted(m.texts_to_embed)),
                   cache |-> c]

\* embed_texts as one step with a remote service that answers every input
EmbedTextsAtomic(c, texts, has_client, remote_ok) ==
    EmbedTextsReturning(c, texts, has_client, remote_ok, Len(texts))

\* the document process_file builds for chunk i (0-based) of document doc_id;
\* id is f"{doc_id}::{i}"
CosmosDoc(doc_id, filename, i, chunk, embedding, current_time) ==
    [id |-> <<doc_id, i>>, filename |-> filename, chunk_index |-> i,
     text |-> chunk.text, embedding |-> embedding, uploaded_at |-> current_time,
     text_length |-> Len(chunk.text)]

CosmosDocs(doc_id, filename, cs, embeddings, current_time) ==
    [k \in 1..Min(Len(cs), Len(embeddings)) |->
        CosmosDoc(doc_id, filename, k - 1, cs[k], embeddings[k], current_time)]

\* container.upsert_item(doc): the item with that id is replaced
UpsertItem(cont, doc) == {r \in cont : r.id # doc.id} \cup {doc}

RECURSIVE UpsertAll_StopAtFirstFailure(_, _, _, _)
\* the first upsert_item that raises ends the loop
UpsertAll_StopAtFirstFailure(cont, docs, k, ok) ==
    IF k > Len(docs) \/ k \notin ok THEN cont
    ELSE UpsertAll_StopAtFirstFailure(UpsertItem(cont, docs[k]), docs, k + 1, ok)

\* the records are stored together or not at all: a failed upsert_item undoes
\* the ones before it and skips the ones after it
UpsertAll_AllOrNothing(cont, docs, k, ok) ==
    IF (k..Len(docs)) \subseteq ok
    THEN {r \in cont : \A i \in k..Len(docs) : r.id # docs[i].id}
         \cup {docs[i] : i \in k..Len(docs)}
    ELSE cont

RECURSIVE UpsertAll(_, _, _, _)
\* the loop of upsert_chunks; ok is the set of positions whose upsert_item
\* does not raise
UpsertAll(cont, docs, k, ok) ==
    IF k > Len(docs) THEN cont
    ELSE UpsertAll(IF k \in ok THEN UpsertItem(cont, docs[k]) ELSE cont, docs, k + 1, ok)

\* _update_document_count: SELECT VALUE COUNT(1) FROM c, 0 when the query raises
CountedDocuments(cont, count_ok) == IF count_ok THEN Cardinality(cont) ELSE 0

\* "SELECT c.id FROM c WHERE c.doc_id = @doc_id": an item without a doc_id
\* property does not match
MatchesDocId(r, doc_id) == "doc_id" \in DOMAIN r /\ r.doc_id = doc_id

\* container.delete_item(item=chunk_id, partition_key=pk) finds the item when
\* its id and its partition key value (the container is partitioned by /id,
\* cosmos_db.py:61) are the ones given
DeleteFinds(r, chunk_id, pk) == r.id = chunk_id /\ r.id = pk

Similarity(distance) == Unit - distance

\* the loop without the test of line 193
SearchResults_NoThreshold(items, min_similarity) ==
    [k \in 1..Len(items) |->
        [id |-> items[k].id, filename |-> items[k].filename, text |-> items[k].text,
         chunk_index |-> items[k].chunk_index,
         similarity |-> Similarity(items[k].distance)]]

\* the loop over the query's items (cosmos_db.py:187-200)
SearchResults(items, min_similarity) ==
    LET kept == SelectSeq(items, LAMBDA it : Similarity(it.distance) >= min_similarity)
    IN  [k \in 1..Len(kept) |->
            [id |-> kept[k].id, filename |-> kept[k].filename, text |-> kept[k].text,
             chunk_index |-> kept[k].chunk_index,
             similarity |-> Similarity(kept[k].distance)]]

RECURSIVE Orderings(_, _)
\* the sequences of n distinct elements of S
Orderings(S, n) ==
    IF n = 0 THEN {<<>>}
    ELSE UNION {{<<r>> \o s : s \in Orderings(S \ {r}, n - 1)} : r \in S}

\* the item the query projects from a stored item at the given distance
QueryItem(r, distance) ==
    [id |-> r.id, filename |-> r.filename, text |-> r.text,
     chunk_index |-> r.chunk_index, distance |-> distance]

\* distances are numbers of 1/Unit-ths between 0 and 2, in ascending order
AscendingDistances(n) ==
    {ds \in [1..n -> 0..(2 * Unit)] : \A k \in 1..(n - 1) : ds[k] <= ds[k + 1]}

\* VectorDistance is a function of the stored embedding and the query vector,
\* 0 for the query vector itself: o are the items returned, ds their distances
\* and rest the items left out, none of them nearer than an item returned
DistancesPossible(o, ds, rest, query_vector) ==
    LET n == Len(o)
    IN  /\ \A k \in 1..n : o[k].embedding = query_vector => ds[k] = 0
        /\ \A k1, k2 \in 1..n : o[k1].embedding = o[k2].embedding => ds[k1] = ds[k2]
        /\ \A r \in rest :
              /\ (n > 0 /\ r.embedding = query_vector) => ds[n] = 0
              /\ \A k \in 1..n : r.embedding = o[k].embedding => ds[k] = ds[n]

\* what "SELECT TOP @top_k ... ORDER BY VectorDistance(c.embedding, @embedding)"
\* may return: top_k stored items (all of them when there are fewer), in
\* ascending distance, no item left out being nearer than one returned
QueryTopK(cont, query_vector, top_k) ==
    LET n == Min(top_k, Cardinality(cont))
    IN  UNION {{[k \in 1..n |-> QueryItem(o[k], ds[k])] :
                   ds \in {x \in AscendingDistances(n) :
                             DistancesPossible(o, x, cont \ {o[k] : k \in 1..n},
                                               query_vector)}} :
               o \in Orderings(cont, n)}

(***************************************************************************)
(* SpecStore: one DocumentProcessor with its EmbeddingsClient and          *)
(* CosmosDBClient; process_file, search_similar and delete_document are    *)
(* called one after the other.                                             *)
(***************************************************************************)
\* what _extract_text returns
FileTexts ==
    {<<>>, <<" ">>, <<"a", ".">>,
     <<"a", "a", "a", "a", ".", " ", "a", "a", "a", "a", ".">>}

Filenames == {"a.txt"}

\* the chunker of the processor: the configuration of config.py lines 46-49
\* (500, 550, 50, 60), scaled
ProcessorConfig == ChunkConfig(1, 2, 1, 1)

\* datetime.utcnow().isoformat()
Now == "now"

QueryVectors == {RemoteVector(<<"a", ".">>), RemoteVector(<<"a">>)}

InitStore ==
    /\ client \in BOOLEAN
    /\ EmbedConstructed
    /\ ChunkUnused
    /\ th = <<>>
    /\ OutageUnused
    /\ connected \in BOOLEAN
    /\ container = {}
    /\ document_count = 0
    /\ uuids = 0
    /\ processed = <<>>
    /\ s_last = NoCall

is_available_Always(conn) == TRUE

\* self.connected and self.container is not None: the container handle is set
\* together with connected
is_available(conn) == conn

has_documents_Always(count) == TRUE

\* self.document_count > 0
has_documents(count) == count > 0

Failure(error) == [op |-> "process_file", success |-> FALSE, error |-> error]

\* process_file(filepath, filename), _extract_text(filepath) returning file_text;
\* short tells whether the remote embeddings service may answer fewer inputs
\* than it was sent
ProcessFileEmbedding(file_text, filename, short) ==
    /\ uuids < MaxDocs
    /\ IF file_text = <<>>
       THEN /\ s_last' = Failure("No text could be extracted from file")
            /\ UNCHANGED <<cache, connected, container, document_count, uuids, processed>>
       ELSE LET doc_id == uuids + 1
                cs == chunk_document(file_text, doc_id, ProcessorConfig)
            IN  /\ uuids' = doc_id
                /\ IF cs = <<>>
                   THEN /\ s_last' = Failure("No chunks generated from document")
                        /\ processed' = Append(processed, s_last')
                        /\ UNCHANGED <<cache, connected, container, document_count>>
                   ELSE \E remote_ok \in BOOLEAN,
                           returned \in (IF short THEN 0..Len(cs) ELSE {Len(cs)}) :
                        LET e == EmbedTextsReturning(cache,
                                                     [k \in 1..Len(cs) |-> cs[k].text],
                                                     client, remote_ok, returned)
                            cosmos_docs == CosmosDocs(doc_id, filename, cs, e.vectors, Now)
                        IN  /\ cache' = e.cache
                            /\ IF Len(e.vectors) # Len(cs)
                               THEN /\ s_last' = Failure("Embedding count mismatch")
                                    /\ processed' = Append(processed, s_last')
                                    /\ UNCHANGED <<connected, container, document_count>>
                               ELSE \E ok \in SUBSET (1..Len(cosmos_docs)), count_ok \in BOOLEAN :
                                    LET avail == is_available(connected)
                                        success_count == IF avail THEN Cardinality(ok) ELSE 0
                                    IN  /\ container' = IF avail
                                                        THEN UpsertAll(container, cosmos_docs, 1, ok)
                                                        ELSE container
                                        /\ document_count' =
                                              IF success_count > 0
                                              THEN CountedDocuments(container', count_ok)
                                              ELSE document_count
                                        /\ s_last' = [op |-> "process_file", success |-> TRUE,
                                                      id |-> doc_id, filename |-> filename,
                                                      total_chunks |-> Len(cs),
                                                      stored_chunks |-> success_count,
                                                      store_calls |->
                                                         IF ~avail THEN 0
                                                         ELSE Len(cosmos_docs)
                                                              + (IF success_count > 0
                                                                 THEN 1 ELSE 0),
                                                      text_length |-> Len(file_text),
                                                      uploaded_at |-> Now]
                                        /\ processed' = Append(processed, s_last')
                                        /\ UNCHANGED connected
    /\ UNCHANGED storeFrame

\* process_file with a remote service that answers every input
ProcessFile(file_text, filename) == ProcessFileEmbedding(file_text, filename, FALSE)

\* process_file with a remote service that may answer only the first inputs
ProcessFileShort(file_text, filename) == ProcessFileEmbedding(file_text, filename, TRUE)

\* what a search_similar call did: whether the store was available, whether the
\* vector query was issued, where an exception was raised inside the try block
\* ("none", "query", "iteration"), the items of the query, the list returned,
\* and whether an exception left search_similar
SearchOutcome(query_vector, top_k, min_similarity, available, queried, failed, items, results, raised) ==
    [op |-> "search_similar", query_vector |-> query_vector, top_k |-> top_k,
     min_similarity |-> min_similarity,
     available |-> available, queried |-> queried, failed |-> failed,
     items |-> items, results |-> results, raised |-> raised]

\* return results / return []
SearchReturn(query_vector, top_k, min_similarity, available, queried, failed, items, results) ==
    SearchOutcome(query_vector, top_k, min_similarity, available, queried, failed,
                  items, results, FALSE)

\* the exception leaves search_similar
OnSearchException_Propagates(query_vector, top_k, min_similarity, failed, items) ==
    SearchOutcome(query_vector, top_k, min_similarity, TRUE, TRUE, failed, items, <<>>, TRUE)

\* except Exception as e: log_error(...); return []
OnSearchException(query_vector, top_k, min_similarity, failed, items) ==
    SearchReturn(query_vector, top_k, min_similarity, TRUE, TRUE, failed, items, <<>>)

\* the body of search_similar(query_vector, top_k, min_similarity): what a
\* call can do in the current state
SearchSimilarOutcomes(query_vector, top_k, min_similarity) ==
    IF ~is_available(connected)
    THEN {SearchReturn(query_vector, top_k, min_similarity, FALSE, FALSE,
                       "none", <<>>, <<>>)}
    ELSE IF ~has_documents(document_count)
    THEN {SearchReturn(query_vector, top_k, min_similarity, TRUE, FALSE,
                       "none", <<>>, <<>>)}
    ELSE UNION {{SearchReturn(query_vector, top_k, min_similarity, TRUE, TRUE,
                              "none", items, SearchResults(items, min_similarity)),
                 \* the iteration over the items raises
                 OnSearchException(query_vector, top_k, min_similarity,
                                   "iteration", items)} :
                items \in QueryTopK(container, query_vector, top_k)}
         \cup \* query_items raises
              {OnSearchException(query_vector, top_k, min_similarity, "query", <<>>)}

\* search_similar(query_vector, top_k, min_similarity).  A search writes
\* nothing a search reads, so a search that follows a search reaches only
\* states the first one reaches: the first conjunct leaves those steps out.
SearchSimilar(query_vector, top_k, min_similarity) ==
    /\ s_last.op # "search_similar"
    /\ s_last' \in SearchSimilarOutcomes(query_vector, top_k, min_similarity)
    /\ UNCHANGED <<cache, connected, container, document_count, uuids, processed>>
    /\ UNCHANGED storeFrame

\* min_similarity=0.6 (chat.py:109) on the grid of 1/Unit-ths: the
\* similarities of the grid that are at least 0.6 are those that are at least 1
SixTenths == Unit

\* the user messages chat_with_rag hands to _get_relevant_context
Queries == {<<"a", ".">>, <<"a">>}

\* f"[{filename}] {text}" with text = chunk.get("text", "").strip(), without
\* the strip
ContextEntry_Unstripped(chunk) == <<"[", chunk.filename, "]", " ">> \o chunk.text

\* f"[{filename}] {text}" with text = chunk.get("text", "").strip()
ContextEntry(chunk) == <<"[", chunk.filename, "]", " ">> \o strip(chunk.text)

\* "\n\n".join(context_parts)
BuildContext(similar_chunks) ==
    Join([k \in 1..Len(similar_chunks) |-> ContextEntry(similar_chunks[k])],
         <<"\n", "\n">>)

\* what a _get_relevant_context call did: where an exception was raised
\* inside the try block ("none", "embed", "search"), the list search_similar
\* returned, the string returned, and whether an exception left the call
ContextOutcome(query, top_k, failed, similar_chunks, context, raised) ==
    [op |-> "get_relevant_context", query |-> query, top_k |-> top_k,
     failed |-> failed, similar_chunks |-> similar_chunks, context |-> context,
     raised |-> raised]

\* the exception leaves _get_relevant_context
OnContextException_Propagates(query, top_k, failed) ==
    ContextOutcome(query, top_k, failed, <<>>, <<>>, TRUE)

\* except Exception as e: log_error(...); return ""
OnContextException(query, top_k, failed) ==
    ContextOutcome(query, top_k, failed, <<>>, <<>>, FALSE)

\* ChatClient._get_relevant_context(query, top_k) on the embedder and the
\* store of the processor (app.py:84-93 hands both to the processor)
GetRelevantContext(query, top_k) ==
    /\ \/ \E remote_ok \in BOOLEAN :
            LET e == EmbedTextsAtomic(cache, <<query>>, client, remote_ok)
                query_vectors == e.vectors
            IN  /\ cache' = e.cache
                /\ IF query_vectors = <<>>
                   THEN s_last' = ContextOutcome(query, top_k, "none", <<>>, <<>>, FALSE)
                   ELSE \E o \in {[raised |-> x.raised, results |-> x.results] :
                                     x \in SearchSimilarOutcomes(query_vectors[1], top_k,
                                                                 SixTenths)} :
                           s_last' =
                              IF o.raised
                              THEN OnContextException(query, top_k, "search")
                              ELSE IF o.results = <<>>
                              THEN ContextOutcome(query, top_k, "none", <<>>, <<>>, FALSE)
                              ELSE ContextOutcome(query, top_k, "none", o.results,
                                                  BuildContext(o.results), FALSE)
       \/ \* embed_texts raises (a cache entry evicted by another thread between
          \* the membership test and the read, embedder.py:63-65)
          /\ s_last' = OnContextException(query, top_k, "embed")
          /\ UNCHANGED cache
    /\ UNCHANGED <<connected, container, document_count, uuids, processed>>
    /\ UNCHANGED storeFrame

\* delete_document(doc_id)
DeleteDocument(doc_id) ==
    /\ IF ~is_available(connected)
       THEN /\ s_last' = [op |-> "delete_document", doc_id |-> doc_id,
                          available |-> FALSE, deleted |-> 0, store_calls |-> 0]
            /\ UNCHANGED container
       ELSE \/ LET chunk_ids == {r.id : r \in {x \in container : MatchesDocId(x, doc_id)}}
                   found == {c \in chunk_ids :
                                \E r \in container : DeleteFinds(r, c, doc_id)}
               IN  \E ok \in SUBSET found :
                      /\ container' = {r \in container : r.id \notin ok}
                      /\ s_last' = [op |-> "delete_document", doc_id |-> doc_id,
                                    available |-> TRUE, deleted |-> Cardinality(ok),
                                    store_calls |-> 1 + Cardinality(chunk_ids)]
            \/ \* the query raises
               /\ s_last' = [op |-> "delete_document", doc_id |-> doc_id,
                             available |-> TRUE, deleted |-> 0, store_calls |-> 1]
               /\ UNCHANGED container
    /\ UNCHANGED <<cache, connected, document_count, uuids, processed>>
    /\ UNCHANGED storeFrame

\* SELECT DISTINCT c.doc_id, c.filename, c.uploaded_at FROM c: a property an
\* item does not have is left out of its projection
DocumentProjection(r) ==
    IF "doc_id" \in DOMAIN r
    THEN [doc_id |-> r.doc_id, filename |-> r.filename, uploaded_at |-> r.uploaded_at]
    ELSE [filename |-> r.filename, uploaded_at |-> r.uploaded_at]

\* list(self.container.query_items(...)): the distinct projections, in the
\* order the store yields them
ListedDocuments(cont) ==
    LET distinct == {DocumentProjection(r) : r \in cont}
    IN  Orderings(distinct, Cardinality(distinct))

\* list_documents(); a listing changes nothing a listing reads, so a listing
\* that follows a listing is left out
ListDocuments ==
    /\ s_last.op # "list_documents"
    /\ IF ~is_available(connected)
       THEN s_last' = [op |-> "list_documents", docs |-> <<>>, store_calls |-> 0]
       ELSE \/ \E docs \in ListedDocuments(container) :
                 s_last' = [op |-> "list_documents", docs |-> docs, store_calls |-> 1]
            \/ \* the query raises
               s_last' = [op |-> "list_documents", docs |-> <<>>, store_calls |-> 1]
    /\ UNCHANGED <<cache, connected, container, document_count, uuids, processed>>
    /\ UNCHANGED storeFrame

NextStore ==
    \/ \E file_text \in FileTexts, filename \in Filenames : ProcessFile(file_text, filename)
    \/ \E q \in QueryVectors, top_k \in 1..MaxTopK, m \in 0..Unit :
          SearchSimilar(q, top_k, m)
    \/ \E d \in 1..MaxDocs : DeleteDocument(d)
    \/ ListDocuments

SpecStore == InitStore /\ [][NextStore]_vars

(***************************************************************************)
(* SpecContext: the ChatClient of the application with the processor that  *)
(* shares its CosmosDBClient and its EmbeddingsClient (app.py:78-93): one  *)
(* file is processed, and _get_relevant_context is called before and after *)
(* it, any number of times.                                                *)
(***************************************************************************)
\* what _extract_text returns: a file of one sentence, and one of three
\* sentences whose second passage starts with the tail of the first
ContextFileTexts ==
    {<<"a", ".">>,
     <<"a", "a", "a", ".", " ", "a", "a", ".", " ", "a", "a", "a", ".">>}

NextContext ==
    \/ \E file_text \in ContextFileTexts, filename \in Filenames :
          uuids = 0 /\ ProcessFile(file_text, filename)
    \/ \E query \in Queries, top_k \in 1..MaxTopK : GetRelevantContext(query, top_k)

SpecContext == InitStore /\ [][NextContext]_vars

(***************************************************************************)
(* SpecShort: questions asked through the chat client, which fill the      *)
(* cache of the shared embedder, then one file processed while the remote  *)
(* embeddings service may answer only the first of the inputs it was sent. *)
(***************************************************************************)
NextShort ==
    \/ \E file_text \in ContextFileTexts, filename \in Filenames :
          ProcessFileShort(file_text, filename)
    \/ \E query \in Queries, top_k \in 1..MaxTopK :
          processed = <<>> /\ GetRelevantContext(query, top_k)

SpecShort == InitStore /\ [][NextShort]_vars

\* the passage lists process_file can hand to embed_texts
PassageLists ==
    {[k \in 1..Len(cs) |-> cs[k].text] :
        cs \in {chunk_document(file_text, 1, ProcessorConfig) :
                   file_text \in ContextFileTexts}}

\* C36: process_file never fails with "Embedding count mismatch": for a
\* non-empty list of passages embed_texts returns as many entries as
\* passages, with any cache, whether the remote call answers every input,
\* answers fewer inputs than it was sent, or fails.
C36_CountMismatchUnreachable ==
    /\ \A k \in 1..Len(processed) :
          processed[k].success \/ processed[k].error # "Embedding count mismatch"
    /\ \A texts \in PassageLists, has_client, remote_ok \in BOOLEAN :
          \A returned \in 0..Len(texts) :
             Len(EmbedTextsReturning(cache, texts, has_client, remote_ok, returned).vectors)
                = Len(texts)

\* a file of two passages was stored after the remote service answered fewer
\* inputs than it was sent: one record has a vector, one has none
C36_Witness ==
    /\ s_last.op = "process_file"
    /\ s_last.success
    /\ s_last.total_chunks >= 2
    /\ s_last.stored_chunks = s_last.total_chunks
    /\ \E r \in container : r.embedding = None
    /\ \E r \in container : r.embedding # None

\* the context of one entry per result, the entries made by entry, with a blank
\* line between two entries
EntriesJoined(results, entry(_)) ==
    LET n == Len(results)
        sep(k) == IF k < n THEN <<"\n", "\n">> ELSE <<>>
    IN  Flatten([k \in 1..n |-> entry(results[k]) \o sep(k)])

\* the entry "[filename] text" of a result, with the text as it was retrieved
EntryOfText(r) == <<"[">> \o <<r.filename>> \o <<"]", " ">> \o r.text

\* the entry of a result, with the text without the whitespace around it
EntryOfStrippedText(r) == <<"[">> \o <<r.filename>> \o <<"]", " ">> \o strip(r.text)

\* a call that returned the empty context without raising
EmptyContextReturned == s_last.context = <<>> /\ ~s_last.raised

\* C27 (as stated): the context is one entry "[filename] text" per retrieval
\* result, in the order of the results, with a blank line between two
\* entries; a call whose embedding or search failed, or that retrieved nothing,
\* returns the empty context and raises nothing.
C27_ContextOfResultTexts ==
    s_last.op = "get_relevant_context" =>
        /\ ~s_last.raised
        /\ s_last.context = EntriesJoined(s_last.similar_chunks, EntryOfText)
        /\ (s_last.failed # "none" \/ s_last.similar_chunks = <<>>) => EmptyContextReturned

\* C27 (amended): the context is one entry per retrieval result, "[filename] "
\* followed by the text of the result without its leading and trailing
\* whitespace, in the order of the results, with a blank line between two
\* entries; a call whose embedding or search failed, or that retrieved nothing,
\* returns the empty context and raises nothing.
C27_ContextOfStrippedTexts ==
    s_last.op = "get_relevant_context" =>
        /\ ~s_last.raised
        /\ s_last.context = EntriesJoined(s_last.similar_chunks, EntryOfStrippedText)
        /\ (s_last.failed # "none" \/ s_last.similar_chunks = <<>>) => EmptyContextReturned

\* two passages were retrieved, the second one with a text that starts with a
\* space, and both are in the context
C27_Witness ==
    /\ s_last.op = "get_relevant_context"
    /\ Len(s_last.similar_chunks) = 2
    /\ s_last.similar_chunks[1].chunk_index = 0
    /\ IsSpace(s_last.similar_chunks[2].text[1])
    /\ s_last.context # <<>>

\* C5: search_similar never returns more than top_k results, every result has
\* similarity >= min_similarity with similarity = 1 - distance (Unit - distance
\* in 1/Unit-ths), and the results are in descending similarity.
C5_SearchResultsBounded ==
    s_last.op = "search_similar" =>
        /\ Len(s_last.results) <= s_last.top_k
        /\ \A k \in 1..Len(s_last.results) :
              /\ s_last.results[k].similarity >= s_last.min_similarity
              /\ \E j \in 1..Len(s_last.items) :
                    /\ s_last.items[j].id = s_last.results[k].id
                    /\ s_last.results[k].similarity = Unit - s_last.items[j].distance
        /\ \A k1, k2 \in 1..Len(s_last.results) :
              k1 < k2 => s_last.results[k1].similarity >= s_last.results[k2].similarity

\* a search whose query returned two items at different distances, the
\* nearer one kept and the farther one below the threshold
C5_Witness ==
    /\ s_last.op = "search_similar"
    /\ Len(s_last.items) = 2
    /\ s_last.items[1].distance < s_last.items[2].distance
    /\ Len(s_last.results) = 1
    /\ s_last.results[1].id = s_last.items[1].id

\* C17: when has_documents() is false on an available store, search_similar
\* returns an empty sequence and the vector query is not issued.
C17_EmptyCollectionSkipsQuery ==
    (/\ s_last.op = "search_similar"
     /\ s_last.available
     /\ ~(document_count > 0)) =>
        /\ s_last.results = <<>>
        /\ ~s_last.queried
        /\ ~s_last.raised

\* a search on an available store whose cached count is 0
C17_Witness ==
    /\ s_last.op = "search_similar"
    /\ s_last.available
    /\ connected
    /\ document_count = 0
    /\ ~s_last.queried

\* C18: when the store is unavailable, or the vector query raises when issued
\* or while its results are iterated, search_similar returns an empty sequence
\* and no exception reaches the caller.
C18_SearchNeverRaises ==
    s_last.op = "search_similar" =>
        /\ ~s_last.raised
        /\ (~s_last.available \/ s_last.failed # "none") => s_last.results = <<>>

\* a search whose query returned an item within the threshold and then raised
\* while the items were iterated
C18_Witness ==
    /\ s_last.op = "search_similar"
    /\ s_last.failed = "iteration"
    /\ s_last.items # <<>>
    /\ SearchResults(s_last.items, s_last.min_similarity) # <<>>
    /\ s_last.results = <<>>

\* the stored items of the document the last process_file call submitted
StoredOfLast == {r \in container : r.id[1] = s_last.id}

\* C20: upsert_chunks on an available store attempts every submitted record,
\* whatever happened to the records before it, and returns the number of
\* records whose upsert succeeded, between 0 and the number submitted: the
\* count process_file reports is the number of the document's records that
\* are in the store, and a record after a failed one is stored when its own
\* upsert succeeds.
C20_UpsertCountsSuccesses ==
    (s_last.op = "process_file" /\ s_last.success /\ is_available(connected)) =>
        /\ s_last.stored_chunks \in 0..s_last.total_chunks
        /\ s_last.stored_chunks = Cardinality(StoredOfLast)
        /\ \A r \in StoredOfLast : r.chunk_index \in 0..(s_last.total_chunks - 1)

\* two records submitted, the upsert of the first failed, the second is stored
\* and the count returned is 1
C20_Witness ==
    /\ s_last.op = "process_file"
    /\ s_last.success
    /\ connected
    /\ s_last.total_chunks = 2
    /\ s_last.stored_chunks = 1
    /\ \E r \in StoredOfLast : r.chunk_index = 1
    /\ ~\E r \in StoredOfLast : r.chunk_index = 0

\* the passages process_file prepared in its last call: those of the file
\* text whose length the result reports
PreparedOfLast ==
    LET file_text == CHOOSE ft \in FileTexts : Len(ft) = s_last.text_length
    IN  chunk_document(file_text, s_last.id, ProcessorConfig)

\* C32: process_file does not roll back a partial store.  A call that reached
\* upsert_chunks reports success with total_chunks = the number n of passages
\* prepared and stored_chunks = the number k of records stored, k <= n, in
\* every result returned so far; when k < n the k records are in the store
\* after the call, each with the text of its passage.
C32_NoRollbackOnPartialStore ==
    /\ \A j \in 1..Len(processed) :
          processed[j].success => processed[j].stored_chunks <= processed[j].total_chunks
    /\ (s_last.op = "process_file" /\ s_last.success) =>
          /\ s_last.total_chunks = Len(PreparedOfLast)
          /\ s_last.stored_chunks <= s_last.total_chunks
          /\ s_last.stored_chunks < s_last.total_chunks =>
                /\ Cardinality(StoredOfLast) = s_last.stored_chunks
                /\ \A r \in StoredOfLast :
                      /\ r.chunk_index \in 0..(s_last.total_chunks - 1)
                      /\ r.text = PreparedOfLast[r.chunk_index + 1].text
                      /\ r.filename = s_last.filename

\* two records prepared, the first stored, the upsert of the second failed
C32_Witness ==
    /\ s_last.op = "process_file"
    /\ s_last.success
    /\ s_last.total_chunks = 2
    /\ s_last.stored_chunks = 1
    /\ \E r \in StoredOfLast : r.chunk_index = 0
    /\ Cardinality(container) = 1

\* what a call on a disabled client returns: 0 stored records, no results, 0
\* deleted, no documents, and no call on the container
NeutralResult(r) ==
    CASE r.op = "process_file" ->
           r.success => (r.stored_chunks = 0 /\ r.store_calls = 0)
      [] r.op = "search_similar" ->
           r.results = <<>> /\ ~r.queried /\ ~r.raised
      [] r.op = "delete_document" ->
           r.deleted = 0 /\ r.store_calls = 0
      [] r.op = "list_documents" ->
           r.docs = <<>> /\ r.store_calls = 0
      [] OTHER -> TRUE

\* C21: a storage client whose construction failed stays disabled: every call
\* on it leaves it disabled, leaves the store as it is, and upsert_chunks,
\* search_similar, delete_document and list_documents return 0, [], 0 and []
\* without raising and without a call on the container.
C21_DisabledStaysNeutral ==
    [][~connected => (/\ ~connected'
                      /\ container' = container
                      /\ document_count' = document_count
                      /\ NeutralResult(s_last'))]_vars

\* a disabled client on which a document was processed (upsert_chunks
\* returned 0) and then the documents were listed
C21_Witness ==
    /\ ~connected
    /\ s_last.op = "list_documents"
    /\ s_last.docs = <<>>
    /\ processed # <<>>
    /\ processed[1].success
    /\ processed[1].total_chunks > 0
    /\ processed[1].stored_chunks = 0

\* the stored passages whose vector is the query vector of the last search
IdenticalPassages == {r \in container : r.embedding = s_last.query_vector}

\* C26: when the store holds a passage whose vector is the query vector, a
\* search with min_similarity = 0.6 and top_k >= 1 on a connected client whose
\* vector query answers returns a first result of similarity 1.0, and that
\* passage is among the results of similarity 1.0 unless top_k results of
\* similarity 1.0 were returned without it; this after any upserts before.
C26_IdenticalVectorFirst ==
    (/\ s_last.op = "search_similar"
     /\ s_last.available
     /\ s_last.failed = "none"
     /\ s_last.min_similarity = SixTenths
     /\ s_last.top_k >= 1
     /\ IdenticalPassages # {})
    => /\ s_last.results # <<>>
       /\ s_last.results[1].similarity = Unit
       /\ \/ \E k \in 1..Len(s_last.results) :
                /\ s_last.results[k].similarity = Unit
                /\ \E r \in IdenticalPassages : r.id = s_last.results[k].id
          \/ /\ Len(s_last.results) = s_last.top_k
             /\ \A k \in 1..Len(s_last.results) : s_last.results[k].similarity = Unit

\* C35: on a connected client, after any completed upsert_chunks,
\* delete_document and search_similar operations, has_documents() is false
\* only if the store holds no record, and so no search takes the
\* empty-collection return while the store holds a record.
C35_EmptyMeansEmpty ==
    /\ (is_available(connected) /\ ~has_documents(document_count)) => container = {}
    /\ (/\ s_last.op = "search_similar"
        /\ s_last.available
        /\ ~s_last.queried
        /\ s_last.failed = "none") => container = {}

\* C10: after process_file stored the chunks of document d and
\* delete_document(d) completed on an available store, no stored chunk of d
\* remains and the returned count is the number of chunks stored for d.
C10_DeleteDestroysChunks ==
    (/\ s_last.op = "delete_document"
     /\ s_last.available
     /\ s_last.doc_id <= Len(processed)
     /\ processed[s_last.doc_id].success
     /\ processed[s_last.doc_id].stored_chunks > 0)
    => /\ \A r \in container : r.id[1] # s_last.doc_id
       /\ s_last.deleted = processed[s_last.doc_id].stored_chunks

(***************************************************************************)
(* SpecOutage: embed_texts calls one after the other on a client with a    *)
(* remote service that first answers and then, from some point on, fails   *)
(* every attempt.                                                          *)
(***************************************************************************)
MaxOutageCalls == 2

InitOutage ==
    /\ client = TRUE
    /\ EmbedConstructed
    /\ ChunkUnused
    /\ th = <<>>
    /\ StoreUnused
    /\ outage = FALSE
    /\ o_calls = 0
    /\ seen = {}

\* embed_texts(texts) while the service answers
WarmCall(texts) ==
    /\ ~outage
    /\ LET r == EmbedTextsAtomic(cache, texts, client, TRUE)
       IN  /\ cache' = r.cache
           /\ e_texts' = texts
           /\ e_result' = r.vectors
    /\ UNCHANGED <<client, e_pc, e_miss, attempt, e_attempts, e_sleeps, e_outcome,
                   cache_at_call>>
    /\ UNCHANGED <<chunkVars, th, storeVars, outageVars>>

\* the remote service goes down
OutageBegins ==
    /\ ~outage
    /\ outage' = TRUE
    /\ UNCHANGED <<chunkVars, embedVars, th, storeVars, o_calls, seen>>

\* embed_texts(texts) while every attempt of the retry loop fails
OutageCall(texts) ==
    /\ outage
    /\ o_calls < MaxOutageCalls
    /\ LET r == EmbedTextsAtomic(cache, texts, client, FALSE)
       IN  /\ cache' = r.cache
           /\ e_texts' = texts
           /\ e_result' = r.vectors
           /\ seen' = seen \cup {<<texts[p], p, r.vectors[p]>> : p \in 1..Len(texts)}
    /\ o_calls' = o_calls + 1
    /\ UNCHANGED <<client, e_pc, e_miss, attempt, e_attempts, e_sleeps, e_outcome,
                   cache_at_call>>
    /\ UNCHANGED <<chunkVars, th, storeVars, outage>>

NextOutage ==
    \/ \E texts \in Batches : WarmCall(texts)
    \/ OutageBegins
    \/ \E texts \in Batches : OutageCall(texts)

SpecOutage == InitOutage /\ [][NextOutage]_vars

\* C16: while the remote service is down, two embed_texts calls that pass the
\* same text at the same input position return the same vector for it,
\* whatever calls were made in between and whichever other inputs are cache
\* hits.
C16_OutageEmbeddingStable ==
    \A x, y \in seen : (x[1] = y[1] /\ x[2] = y[2]) => x[3] = y[3]

(***************************************************************************)
(* SpecAsWritten: process_file and chunk_document with the logging helpers *)
(* as logger.py defines them.  log_info, log_warning and log_debug take a  *)
(* message and nothing else, log_error a message and exc_info; Python      *)
(* raises TypeError for a call that passes any other keyword.              *)
(***************************************************************************)
\* a call of a function with the given parameters, passing the given keywords
\* besides the message
LogCall(keywords, parameters) ==
    IF keywords \subseteq parameters THEN "returned" ELSE "TypeError"

\* def log_info(message: str)
log_info(keywords) == LogCall(keywords, {})

\* def log_error(message: str, exc_info=False)
log_error(keywords) == LogCall(keywords, {"exc_info"})

\* EmbeddingsClient.__init__ and CosmosDBClient._connect each end their try
\* block with a log_info call; when it raises, the except clause resets
\* self._client to None, self.connected to False
InitAsWritten ==
    /\ client \in {b \in BOOLEAN : b => log_info({"deployment"}) = "returned"}
    /\ connected \in {b \in BOOLEAN : b => log_info({"database", "container"}) = "returned"}
    /\ EmbedConstructed
    /\ ChunkUnused
    /\ th = <<>>
    /\ OutageUnused
    /\ container = {}
    /\ document_count = 0
    /\ uuids = 0
    /\ processed = <<>>
    /\ s_last = NoCall

\* process_file(filepath, filename), file_text being the text of the file at
\* filepath: the log_info call of line 32 comes before the try block
ProcessFileAsWritten(file_text, filename) ==
    IF log_info({"filename"}) = "TypeError"
    THEN /\ s_last' = [op |-> "process_file", file |-> file_text, filename |-> filename,
                       exception |-> "TypeError"]
         /\ UNCHANGED <<cache, connected, container, document_count, uuids, processed>>
         /\ UNCHANGED storeFrame
    ELSE ProcessFile(file_text, filename)

\* chunk_document(text, doc_id) of the processor's chunker: the log_info call
\* of lines 59-62 comes after the sentence split and before the loop, the one
\* of lines 117-120 before the return
ChunkDocumentAsWritten(t, doc_id) ==
    /\ s_last' =
          IF log_info({"doc_id", "text_length", "sentences"}) = "TypeError"
             \/ log_info({"doc_id", "total_chunks", "avg_tokens"}) = "TypeError"
          THEN [op |-> "chunk_document", text |-> t, doc_id |-> doc_id,
                exception |-> "TypeError"]
          ELSE [op |-> "chunk_document", text |-> t, doc_id |-> doc_id,
                chunks |-> chunk_document(t, doc_id, ProcessorConfig)]
    /\ UNCHANGED <<cache, connected, container, document_count, uuids, processed>>
    /\ UNCHANGED storeFrame

NextAsWritten ==
    \/ \E file_text \in Texts, filename \in Filenames :
          ProcessFileAsWritten(file_text, filename)
    \/ \E t \in Texts : ChunkDocumentAsWritten(t, DocId)

SpecAsWritten == InitAsWritten /\ [][NextAsWritten]_vars

\* C19: process_file never raises: every call returns a result record, and a
\* result with success = false carries an error reason.
C19_ProcessFileNeverRaises ==
    s_last.op = "process_file" =>
        /\ "success" \in DOMAIN s_last
        /\ s_last.success = FALSE => "error" \in DOMAIN s_last

\* C28: chunk_document never raises: for every input text, the empty,
\* whitespace-only and punctuation-free ones included, the call returns a
\* sequence of passages.
C28_ChunkDocumentNeverRaises ==
    s_last.op = "chunk_document" =>
        /\ "exception" \notin DOMAIN s_last
        /\ "chunks" \in DOMAIN s_last
        /\ Len(s_last.chunks) >= 0

====
